---- MODULE Spec2Model ----
(***************************************************************************)
(* Ingestion orchestrator of the IPTV playlist server.                     *)
(*                                                                         *)
(* The model follows POST /api/playlist/parse (routes/playlist.rs,         *)
(* parse_playlist) and the background task it spawns, which runs           *)
(* M3UParser::parse_and_cache_with_progress (services/m3u_parser.rs)       *)
(* against the PostgreSQL playlists table (db/repository/playlists.rs,     *)
(* services/db_cache.rs) and the Redis keys processing:<hash> and          *)
(* progress:<hash> (services/redis.rs).                                    *)
(*                                                                         *)
(* Every request is one sequential process: the admission handler, then    *)
(* the task it spawned.  A step of a process is one access to the          *)
(* database or to Redis; accesses that touch no shared state (opening the  *)
(* writer's transaction, reading the feed) are merged into the step next   *)
(* to them.  In the admission handler the lookup of the cached playlist    *)
(* and the update or delete that follows it are one step.                  *)
(*                                                                         *)
(* Spec is the model of the concurrent requests; it takes the parse loop   *)
(* as one step over a feed of which only the counters are kept.            *)
(* ParserSpec is the model of one ingestion that runs alone under its      *)
(* lock: parse_and_cache_with_progress line by line over the feed, the     *)
(* StreamingDbWriter (db/repository/items.rs), the series accumulators,    *)
(* and GET /api/playlist/:hash/status (get_parse_status) polled beside it. *)
(***************************************************************************)
EXTENDS Integers, FiniteSets, Sequences, TLC

\* ---------------------------------------------------------------------
\* Bounds of the model
\* ---------------------------------------------------------------------

\* number of admission requests in a behaviour
MaxReq == 2

\* number of retained items of a non-empty feed (below the batch size of 500)
MaxItems == 3

\* length of the feeds that are built from every sequence of lines
MaxLines == 3

\* number of records of the feeds that are a header followed by records
MaxRecords == 3

\* StreamingDbWriter::batch_size (500 in the program, scaled down)
batch_size == 2

\* the parse loop publishes progress every 500 items (scaled down)
ProgressEvery == 2

\* get_parse_status: items_parsed >= 500 allows navigation (scaled down)
NavigateAfter == 2

\* number of sessions created in a behaviour
MaxSessions == 2

\* number of poll requests that can be in progress at the same time
MaxPollers == 2

\* number of URLs the send handler stores in a behaviour
MaxSends == 2

\* the lines of a manifest of the origin
MaxManifestLines == 2

\* the runs of the cleanup worker that are counted
MaxCycles == 3

\* the longest name and the longest group the classifier is given, in
\* words, beside the names and groups of the scenarios
MaxWords == 2

\* the longest string field that is written to a COPY line, in characters
MaxFieldLen == 3

\* the column limit of series fields (50 to 2048 characters in the
\* program, scaled down), in bytes and in characters
MaxColumn == 2

\* the largest max_retries (MAX_RETRIES) a fetch is configured with: the
\* shift of the backoff overflows from attempt 64 on
MaxRetriesConfig == 66

\* Config::max_items_page, the largest page of a listing (scaled down)
max_items_page == 3


\* the playlists that are expired at one time
MaxExpired == 2

\* the watch history entries beyond the kept ones at one time
MaxExtra == 2

Requests == 1..MaxReq

\* ---------------------------------------------------------------------
\* Values
\* ---------------------------------------------------------------------

\* a URL of the Xtream pattern: path /get.php with username and password
XtreamUrl == "http://x/get.php?username=a&password=b"

ValidUrls == {"http://u1", XtreamUrl}
InvalidUrls == {"ftp://u3"}
Urls == ValidUrls \cup InvalidUrls

Hashes == {"H1", "H2"}

NoDevice == "no_device"
Devices == {"D1", "D2"}

\* the device_id of a request: absent, or the device D1
ReqDevices == {NoDevice, "D1"}

NoRow == [id |-> 0]
NoLock == 0
NoProgress == [status |-> "none"]
NoError == "no_error"
NoMeta == [total_items |-> 0 - 1]
NoReq == [url |-> "none"]
NoResp == [status |-> "none"]

\* values of playlists.expires_at: NULL, a time set before this run,
\* and NOW() + 1 day as written by a step of this run
Null == "null"
OldExpiry == "old"
NowPlus1Day == "now_plus_1d"

\* ids of the playlist rows that exist before the first request; a row
\* created by the task of request i gets id i (uuid, never reused)
InitId(h) == IF h = "H1" THEN 0 - 1 ELSE 0 - 2

\* ---------------------------------------------------------------------
\* Pure functions
\* ---------------------------------------------------------------------

\* parse_playlist: payload.url.is_empty() || !payload.url.starts_with("http")
IsValidUrl(u) == u \in ValidUrls

\* hash_url: SHA1 of the URL text, injective on the URLs of the model
hash_url(u) == IF u = "http://u1" THEN "H1" ELSE "H2"

NoCreds == [server |-> "none"]

\* extract_credentials: Some(server, username, password) when the path
\* contains /get.php and the query has a non-empty username and password
extract_credentials(u) ==
    IF u = XtreamUrl
    THEN [server |-> "http://x", username |-> "a", password |-> "b"]
    ELSE NoCreds

\* the accounts for which the origin's player_api.php answers
\* user_info.status = active
ActiveAccounts == {[server |-> "http://x", username |-> "a", password |-> "b"]}

\* validate_credentials: Ok when the origin confirms an active account
validate_credentials(creds) == creds \in ActiveAccounts

\* detect_xtream: the credentials when the URL has the Xtream pattern and
\* the origin validates them, None otherwise
detect_xtream(u) ==
    LET creds == extract_credentials(u)
    IN IF creds # NoCreds /\ validate_credentials(creds) THEN creds ELSE NoCreds

\* PlaylistStats::default()
DefaultStats == [total_items |-> 0, group_count |-> 0, series_count |-> 0]

\* The counters the parse loop accumulates for a feed with n retained
\* items: one group, one item that is not an episode, n - 1 episodes
\* of one series.
FeedStats(n) ==
    [total_items |-> n,
     group_count |-> IF n = 0 THEN 0 ELSE 1,
     series_count |-> IF n = 0 THEN 0 ELSE n - 1]

\* series_vec.len(): number of series records built from the feed
FeedSeries(n) == IF n > 1 THEN 1 ELSE 0

\* ParseProgress::new_parsing
new_parsing ==
    [status |-> "parsing", items_parsed |-> 0, groups_count |-> 0,
     series_count |-> 0, current_phase |-> "downloading", error |-> NoError]

\* faulty variant: the two counts are stored in each other's field
complete_Swapped(p, groups, series) ==
    [p EXCEPT !.status = "complete", !.current_phase = "done",
              !.groups_count = series, !.series_count = groups]

\* ParseProgress::complete
complete(p, groups, series) ==
    [p EXCEPT !.status = "complete", !.current_phase = "done",
              !.groups_count = groups, !.series_count = series]

\* faulty variant: the error message is not stored
failed_NoMessage(p, e) == [p EXCEPT !.status = "failed"]

\* ParseProgress::failed
failed(p, e) == [p EXCEPT !.status = "failed", !.error = e]

\* faulty variant: only the status parsing counts as active
IsAlreadyParsing_OnlyParsing(p) == p # NoProgress /\ p.status = "parsing"

\* parse_playlist: the statuses for which an admission answers
\* "Already parsing this playlist"
IsAlreadyParsing(p) ==
    p # NoProgress /\ (p.status = "parsing" \/ p.status = "building_groups")

\* PlaylistRow::to_stats
to_stats(row) ==
    [total_items |-> row.total_items, group_count |-> row.group_count,
     series_count |-> row.series_count]

\* ---------------------------------------------------------------------
\* Database operations on the playlists table (a function hash -> row:
\* (client_id, hash) is unique and client_id is always NULL here)
\* ---------------------------------------------------------------------

\* playlists::upsert_playlist as called by save_playlist(hash, url,
\* PlaylistStats::default(), None): insert, or on conflict overwrite the
\* device, counts and expiry of the row and keep its id and children
upsert_playlist(db, h, newId) ==
    IF db[h] = NoRow
    THEN [db EXCEPT ![h] =
            [id |-> newId, device_id |-> NoDevice, total_items |-> 0,
             group_count |-> 0, series_count |-> 0, expires_at |-> Null,
             item_rows |-> 0, group_rows |-> 0, series_rows |-> 0]]
    ELSE [db EXCEPT ![h].device_id = NoDevice, ![h].total_items = 0,
                    ![h].group_count = 0, ![h].series_count = 0,
                    ![h].expires_at = Null]

\* playlists::delete_by_device
delete_by_device(db, d) ==
    [h \in Hashes |-> IF db[h] # NoRow /\ db[h].device_id = d THEN NoRow ELSE db[h]]

\* DbCacheService::delete_playlist (by hash; children cascade)
delete_playlist(db, h) == [db EXCEPT ![h] = NoRow]

\* faulty variant: the device is set but expires_at is not refreshed
update_device_and_ttl_NoTtl(db, id, d, e) ==
    [h \in Hashes |->
        IF db[h] # NoRow /\ db[h].id = id
        THEN [db[h] EXCEPT !.device_id = d]
        ELSE db[h]]

\* playlists::update_device_and_ttl (UPDATE ... WHERE id = $1)
update_device_and_ttl(db, id, d, e) ==
    [h \in Hashes |->
        IF db[h] # NoRow /\ db[h].id = id
        THEN [db[h] EXCEPT !.device_id = d, !.expires_at = e]
        ELSE db[h]]

\* parse_playlist: UPDATE playlists SET expires_at = $2 WHERE id = $1
update_ttl(db, id, e) ==
    [h \in Hashes |->
        IF db[h] # NoRow /\ db[h].id = id
        THEN [db[h] EXCEPT !.expires_at = e]
        ELSE db[h]]

\* playlists::update_stats through DbCacheService::update_stats
update_stats(db, h, s) ==
    [db EXCEPT ![h].total_items = s.total_items,
               ![h].group_count = s.group_count,
               ![h].series_count = s.series_count]

\* ---------------------------------------------------------------------
\* The feed and the parse loop of parse_and_cache_with_progress
\* ---------------------------------------------------------------------

\* Lines of a feed, after trim().  An EXTINF line carries the title after
\* the first comma and the group-title attribute; text is normalized
\* already.  A title is its text and the numbers of an SxxEyy pattern in
\* it (NoNumber when the title has no such pattern): "BB S01E02" is
\* Title("BB", 1, 2).
NoNumber == 0 - 1
Title(text, season, episode) == [text |-> text, season |-> season, episode |-> episode]

HeaderLine == [t |-> "header"]
BlankLine == [t |-> "blank"]
CommentLine == [t |-> "comment"]
ExtinfLine(title, group) == [t |-> "extinf", title |-> title, group |-> group]
BadExtinfLine == [t |-> "extinf_no_comma"]
UrlLine(u) == [t |-> "url", url |-> u]
TextLine == [t |-> "text"]
LongLine == [t |-> "too_long"]

\* a record of a feed: an EXTINF line and the stream URL after it
Rec(title, group, url) == [title |-> title, group |-> group, url |-> url]
RecordLines(r) == <<ExtinfLine(r.title, r.group), UrlLine(r.url)>>

RECURSIVE Flatten(_)
Flatten(rs) == IF rs = <<>> THEN <<>> ELSE RecordLines(Head(rs)) \o Flatten(Tail(rs))

Plain(text) == Title(text, NoNumber, NoNumber)
Episode(n) == Rec(Title("Breaking Bad", 1, n), "Series", "http://e/" \o ToString(n))
Movie == Rec(Plain("Flow"), "Filmes", "http://m/1")

\* scenario E1: the URLs x/1, x/1, x/2 in group A
FeedE1 ==
    <<HeaderLine>> \o Flatten(<<Rec(Plain("X"), "A", "http://x/1"),
                                Rec(Plain("X"), "A", "http://x/1"),
                                Rec(Plain("Y"), "A", "http://x/2")>>)

\* scenario E2: five episodes of one series with a movie between the third
\* and the fourth
FeedE2 ==
    <<HeaderLine>> \o Flatten(<<Episode(1), Episode(2), Episode(3), Movie,
                                Episode(4), Episode(5)>>)

\* the records feeds are built from: two plain items of group A, episodes
\* of one series out of order and in two seasons, the same series name in
\* another group, an item of a series group without an episode pattern,
\* and a movie
Records ==
    {Rec(Plain("X"), "A", "http://x/1"),
     Rec(Plain("Y"), "A", "http://x/2"),
     Rec(Title("Breaking Bad", 1, 2), "Series", "http://e/2"),
     Rec(Title("Breaking Bad", 1, 1), "Series", "http://e/1"),
     Rec(Title("Breaking Bad", 2, 1), "Series", "http://e/3"),
     Rec(Title("Breaking Bad", 1, 1), "A", "http://e/4"),
     Rec(Plain("Z"), "Series", "http://z/1"),
     Movie}

LineAlphabet ==
    {HeaderLine, BlankLine, CommentLine, ExtinfLine(Plain("X"), "A"), BadExtinfLine,
     UrlLine("http://x/1"), TextLine, LongLine}

SeqsUpTo(S, n) == UNION {[1..k -> S] : k \in 0..n}

\* the response bodies: every sequence of at most MaxLines lines, every
\* header followed by at most MaxRecords records, and the two scenarios
Feeds ==
    SeqsUpTo(LineAlphabet, MaxLines)
        \cup {<<HeaderLine>> \o Flatten(rs) : rs \in SeqsUpTo(Records, MaxRecords)}
        \cup {FeedE1, FeedE2}

NoExtinf == [title |-> "none"]
NoSeriesInfo == [series_name |-> "none"]
NoRun == [series_key |-> "none"]
NoItem == [url |-> "none"]

\* parse_extinf: None without a comma, else the title and the attributes
parse_extinf(line) ==
    IF line.t = "extinf" THEN [title |-> line.title, group |-> line.group] ELSE NoExtinf

\* url_dedup_hash: DefaultHasher of the URL, injective on the URLs here
url_dedup_hash(u) == <<"dedup", u>>

\* faulty variant: no URL counts as seen
already_seen_Never(seen_urls, url_hash) == FALSE

\* !seen_urls.insert(url_hash): the key was in the set already
already_seen(seen_urls, url_hash) == url_hash \in seen_urls

\* ContentClassifier::classify_by_group on the groups of the model
classify_by_group(group) ==
    CASE group = "Series" -> "series"
      [] group = "Filmes" -> "movie"
      [] OTHER -> "unknown"

\* ContentClassifier::classify_by_title: an SxxEyy pattern makes a series
classify_by_title(name, group) ==
    IF name.season # NoNumber THEN "series" ELSE "unknown"

\* ContentClassifier::classify on names and groups without 24h, adult or
\* event markers: the group decides, then the title
classify(name, group) ==
    IF classify_by_group(group) # "unknown"
    THEN classify_by_group(group)
    ELSE classify_by_title(name, group)

\* ContentClassifier::extract_series_info: "<name> SxxEyy"
extract_series_info(name) ==
    IF name.season # NoNumber
    THEN [series_name |-> name.text, season |-> name.season, episode |-> name.episode]
    ELSE NoSeriesInfo

\* format!("{}_{}", group_title, info.series_name)
series_key_of(group, series_name) == group \o "_" \o series_name

\* PlaylistStats::default() with the counters of every media kind
StatsZero ==
    [total_items |-> 0, live_count |-> 0, movie_count |-> 0, series_count |-> 0,
     unknown_count |-> 0, group_count |-> 0]

\* faulty variant: an item of unknown kind is counted in no kind
count_kind_SkipUnknown(s, kind) ==
    CASE kind = "live" -> [s EXCEPT !.total_items = @ + 1, !.live_count = @ + 1]
      [] kind = "movie" -> [s EXCEPT !.total_items = @ + 1, !.movie_count = @ + 1]
      [] kind = "series" -> [s EXCEPT !.total_items = @ + 1, !.series_count = @ + 1]
      [] OTHER -> [s EXCEPT !.total_items = @ + 1]

\* "Update stats": total_items and the counter of the item's kind
count_kind(s, kind) ==
    CASE kind = "live" -> [s EXCEPT !.total_items = @ + 1, !.live_count = @ + 1]
      [] kind = "movie" -> [s EXCEPT !.total_items = @ + 1, !.movie_count = @ + 1]
      [] kind = "series" -> [s EXCEPT !.total_items = @ + 1, !.series_count = @ + 1]
      [] OTHER -> [s EXCEPT !.total_items = @ + 1, !.unknown_count = @ + 1]

\* faulty variant: a run replaces the episodes accumulated under its key
flush_run_to_accumulator_Replace(accum, run) ==
    IF run = NoRun \/ run.episodes = <<>> THEN accum
    ELSE IF run.series_key \in DOMAIN accum
         THEN [accum EXCEPT ![run.series_key].episodes = run.episodes]
         ELSE accum @@ (run.series_key :>
                [id |-> "series_" \o run.series_key, name |-> run.series_name,
                 group |-> run.group, episodes |-> run.episodes])

\* flush_run_to_accumulator: the episodes of the run are appended to the
\* accumulator of its series key, which is created when absent
flush_run_to_accumulator(accum, run) ==
    IF run = NoRun \/ run.episodes = <<>> THEN accum
    ELSE IF run.series_key \in DOMAIN accum
         THEN [accum EXCEPT ![run.series_key].episodes = @ \o run.episodes]
         ELSE accum @@ (run.series_key :>
                [id |-> "series_" \o run.series_key, name |-> run.series_name,
                 group |-> run.group, episodes |-> run.episodes])

\* a.season.cmp(&b.season), then a.episode.cmp(&b.episode): a <= b
BySeasonEpisode(a, b) ==
    a.season < b.season \/ (a.season = b.season /\ a.episode <= b.episode)

\* sort_by_key(|e| e.episode): a <= b
ByEpisode(a, b) == a.episode <= b.episode

\* sort_by_key(|s| s.season_number): a <= b
BySeasonNumber(a, b) == a.season_number <= b.season_number

\* slice::sort_by, a stable sort: x goes after the elements not above it
InsertSorted(x, s, Le(_, _)) ==
    LET n == Cardinality({j \in 1..Len(s) : Le(s[j], x)})
    IN SubSeq(s, 1, n) \o <<x>> \o SubSeq(s, n + 1, Len(s))

RECURSIVE SortEpisodes(_)
SortEpisodes(s) ==
    IF s = <<>> THEN <<>>
    ELSE InsertSorted(s[Len(s)], SortEpisodes(SubSeq(s, 1, Len(s) - 1)), BySeasonEpisode)

RECURSIVE SortByEpisode(_)
SortByEpisode(s) ==
    IF s = <<>> THEN <<>>
    ELSE InsertSorted(s[Len(s)], SortByEpisode(SubSeq(s, 1, Len(s) - 1)), ByEpisode)

RECURSIVE SortSeasons(_)
SortSeasons(s) ==
    IF s = <<>> THEN <<>>
    ELSE InsertSorted(s[Len(s)], SortSeasons(SubSeq(s, 1, Len(s) - 1)), BySeasonNumber)

\* the elements of s that satisfy the test, in the order of s
RECURSIVE OfSeason(_, _)
OfSeason(s, n) ==
    IF s = <<>> THEN <<>>
    ELSE IF Head(s).season = n THEN <<Head(s)>> \o OfSeason(Tail(s), n)
         ELSE OfSeason(Tail(s), n)

\* HashMap::into_iter: the entries in an order the program does not choose
RECURSIVE IterOrder(_)
IterOrder(S) ==
    IF S = {} THEN <<>>
    ELSE LET x == CHOOSE y \in S : TRUE IN <<x>> \o IterOrder(S \ {x})

\* faulty variant: the episodes and the seasons keep their arrival order
build_series_info_Unsorted(accum) ==
    LET episodes == accum.episodes
        numbers == IterOrder({episodes[j].season : j \in 1..Len(episodes)})
        seasons_data ==
            [j \in 1..Len(numbers) |->
                [season_number |-> numbers[j], episodes |-> OfSeason(episodes, numbers[j])]]
    IN [id |-> accum.id, name |-> accum.name, group |-> accum.group,
        total_episodes |-> Len(episodes), total_seasons |-> Len(seasons_data),
        first_season |-> IF seasons_data = <<>> THEN 0 ELSE seasons_data[1].season_number,
        last_season |-> IF seasons_data = <<>> THEN 0
                        ELSE seasons_data[Len(seasons_data)].season_number,
        seasons_data |-> seasons_data]

\* build_series_info: sort the episodes by season and episode, group them
\* by season, sort every season by episode and the seasons by number
build_series_info(accum) ==
    LET episodes == SortEpisodes(accum.episodes)
        numbers == IterOrder({episodes[j].season : j \in 1..Len(episodes)})
        seasons_data ==
            SortSeasons([j \in 1..Len(numbers) |->
                [season_number |-> numbers[j],
                 episodes |-> SortByEpisode(OfSeason(episodes, numbers[j]))]])
    IN [id |-> accum.id, name |-> accum.name, group |-> accum.group,
        total_episodes |-> Len(episodes), total_seasons |-> Len(seasons_data),
        first_season |-> IF seasons_data = <<>> THEN 0 ELSE seasons_data[1].season_number,
        last_season |-> IF seasons_data = <<>> THEN 0
                        ELSE seasons_data[Len(seasons_data)].season_number,
        seasons_data |-> seasons_data]

\* the locals of the parse loop before the first line
LoopInit ==
    [current_extinf |-> NoExtinf, item_index |-> 0, found_header |-> FALSE,
     stats |-> StatsZero, groups |-> <<>>, series_accum |-> <<>>,
     current_run |-> NoRun, seen_urls |-> {}, duplicates_skipped |-> 0,
     parse_error |-> NoError, progress |-> new_parsing,
     groups_vec |-> <<>>, series_vec |-> <<>>]

\* "Update groups": the entry of the group keeps the kind of its first
\* item and counts its items
count_group(groups, group, kind) ==
    IF group \in DOMAIN groups
    THEN [groups EXCEPT ![group].item_count = @ + 1]
    ELSE groups @@ (group :> [media_kind |-> kind, item_count |-> 1])

\* The body of the loop for a stream URL that follows an EXTINF and is not
\* a duplicate: classify, track the series run, count, build the item.
\* The result is the new locals and the item for the writer.
ParseItem(l, extinf, stream_url) ==
    LET name == extinf.title
        group_title == extinf.group
        media_kind == classify(name, group_title)
        info == IF media_kind = "series" THEN extract_series_info(name) ELSE NoSeriesInfo
        series_key == series_key_of(group_title, info.series_name)
        item_id == <<stream_url, l.item_index>>
        is_same_run == l.current_run # NoRun /\ l.current_run.series_key = series_key
        keep_run == info # NoSeriesInfo /\ is_same_run
        accum == IF keep_run THEN l.series_accum
                 ELSE flush_run_to_accumulator(l.series_accum, l.current_run)
        run == IF keep_run THEN l.current_run
               ELSE [series_key |-> series_key, series_name |-> info.series_name,
                     group |-> group_title, episodes |-> <<>>]
        episode == [item_id |-> item_id, name |-> name, season |-> info.season,
                    episode |-> info.episode, url |-> stream_url]
    IN [loc |-> [l EXCEPT
                    !.seen_urls = @ \cup {url_dedup_hash(stream_url)},
                    !.series_accum = accum,
                    !.current_run =
                        IF info = NoSeriesInfo THEN NoRun
                        ELSE [run EXCEPT !.episodes = Append(@, episode)],
                    !.stats = count_kind(@, media_kind),
                    !.groups = count_group(@, group_title, media_kind)],
        item |-> [id |-> item_id, name |-> name, url |-> stream_url,
                  group |-> group_title, media_kind |-> media_kind,
                  series_id |-> IF info = NoSeriesInfo THEN "null"
                                ELSE "series_" \o series_key,
                  season_number |-> IF info = NoSeriesInfo THEN NoNumber ELSE info.season,
                  episode_number |-> IF info = NoSeriesInfo THEN NoNumber ELSE info.episode]]

\* One pass of the loop over a line that was read: the new locals and the
\* item to write, if the line completes a record that is retained
ProcessLine(l, line) ==
    CASE line.t = "too_long" ->
            [loc |-> [l EXCEPT !.parse_error = "Playlist line exceeds max length"],
             item |-> NoItem]
      [] line.t = "blank" -> [loc |-> l, item |-> NoItem]
      [] line.t = "header" -> [loc |-> [l EXCEPT !.found_header = TRUE], item |-> NoItem]
      [] line.t = "comment" -> [loc |-> l, item |-> NoItem]
      [] line.t \in {"extinf", "extinf_no_comma"} ->
            [loc |-> [l EXCEPT !.current_extinf = parse_extinf(line)], item |-> NoItem]
      [] OTHER ->
            IF l.current_extinf = NoExtinf THEN [loc |-> l, item |-> NoItem]
            ELSE IF line.t # "url"
                 THEN [loc |-> [l EXCEPT !.current_extinf = NoExtinf], item |-> NoItem]
                 ELSE IF already_seen(l.seen_urls, url_dedup_hash(line.url))
                      THEN [loc |-> [l EXCEPT !.current_extinf = NoExtinf,
                                              !.duplicates_skipped = @ + 1],
                            item |-> NoItem]
                      ELSE ParseItem([l EXCEPT !.current_extinf = NoExtinf],
                                     l.current_extinf, line.url)

\* StreamingDbWriter::new: a transaction is open and nothing is written
NoWriter == [state |-> "none", batch |-> <<>>, copied |-> <<>>, items_written |-> 0]
NewWriter == [NoWriter EXCEPT !.state = "open"]

\* NewItem::from_item(item, playlist_id, sort_order)
from_item(item, sort_order) ==
    [id |-> item.id, name |-> item.name, url |-> item.url, group |-> item.group,
     media_kind |-> item.media_kind, series_id |-> item.series_id,
     season_number |-> item.season_number, episode_number |-> item.episode_number,
     sort_order |-> sort_order]

\* faulty variant: the batch is copied and kept
flush_batch_Keeps(w) == [w EXCEPT !.copied = @ \o w.batch]

\* StreamingDbWriter::flush_batch: COPY the batch inside the transaction
flush_batch(w) == [w EXCEPT !.copied = @ \o w.batch, !.batch = <<>>]

\* faulty variant: sort_order is the position of the item in its batch
write_item_PerBatch(w, item) ==
    LET pushed == [w EXCEPT !.batch = Append(@, from_item(item, Len(w.batch))),
                            !.items_written = @ + 1]
    IN IF Len(pushed.batch) >= batch_size THEN flush_batch(pushed) ELSE pushed

\* StreamingDbWriter::write_item: push the item and flush a full batch
write_item(w, item) ==
    LET pushed == [w EXCEPT !.batch = Append(@, from_item(item, w.items_written)),
                            !.items_written = @ + 1]
    IN IF Len(pushed.batch) >= batch_size THEN flush_batch(pushed) ELSE pushed

\* faulty variant: dropping the writer keeps what its transaction copied
drop_writer_Keeps(items, w) == items \o w.copied

\* Transaction::drop without commit: the rows copied inside the
\* transaction are rolled back, the table is as it was
drop_writer(items, w) == items

\* the rows StreamingDbWriter::finish commits: the flushed batches and the
\* remaining one
finish(items, w) == items \o w.copied \o w.batch

\* faulty variant: the header always counts as missing
missing_header_Always(l) == TRUE

\* "if !found_header" after the loop
missing_header(l) == ~l.found_header

\* the store of the ingested hash: its playlists row and the playlist_items,
\* playlist_groups and series rows that reference it
NoStore == [playlist |-> NoRow, items |-> <<>>, groups |-> <<>>, series |-> <<>>]

\* DbCacheService::has_cache: find_by_hash_any(hash) is Some
has_cache(st) == st.playlist # NoRow

\* "ORDER BY sort_order" of items::get_items: a <= b
BySortOrder(a, b) == a.sort_order <= b.sort_order

RECURSIVE order_by_sort_order(_)
order_by_sort_order(rows) ==
    IF rows = <<>> THEN <<>>
    ELSE InsertSorted(rows[Len(rows)],
                      order_by_sort_order(SubSeq(rows, 1, Len(rows) - 1)), BySortOrder)

\* DbCacheService::read_items: the committed rows of the playlist
\* "ORDER BY sort_order LIMIT limit OFFSET offset", and count_items
read_items(st, offset, limit) ==
    LET rows == order_by_sort_order(st.items)
        last == IF offset + limit < Len(rows) THEN offset + limit ELSE Len(rows)
    IN [items |-> SubSeq(rows, offset + 1, last), total |-> Len(rows)]

\* get_items, GET /api/playlist/:hash/items, when read_items succeeds:
\* 404 without a playlists row, otherwise a page of at most max_items_page
\* rows
get_items(st, query_limit, offset) ==
    IF ~has_cache(st)
    THEN [status |-> 404, error |-> "Playlist nao encontrada ou expirada"]
    ELSE LET limit == IF query_limit < max_items_page THEN query_limit
                      ELSE max_items_page
             page == read_items(st, offset, limit)
         IN [status |-> 200, items |-> page.items, total |-> page.total,
             limit |-> limit, offset |-> offset,
             has_more |-> offset + Len(page.items) < page.total]


\* upsert_playlist for save_playlist(hash, url, PlaylistStats::default(), None)
insert_playlist(st) ==
    IF st.playlist = NoRow
    THEN [st EXCEPT !.playlist = [id |-> 1, stats |-> StatsZero, expires_at |-> Null]]
    ELSE [st EXCEPT !.playlist.stats = StatsZero, !.playlist.expires_at = Null]

\* groups_vec: one PlaylistGroup for every entry of the groups map
groups_vec_of(groups) ==
    LET names == IterOrder(DOMAIN groups)
    IN [j \in 1..Len(names) |->
            [name |-> names[j], media_kind |-> groups[names[j]].media_kind,
             item_count |-> groups[names[j]].item_count]]

\* series_vec: build_series_info of every accumulator
series_vec_of(series_accum) ==
    LET keys == IterOrder(DOMAIN series_accum)
    IN [j \in 1..Len(keys) |-> build_series_info(series_accum[keys[j]])]

\* faulty variant: only a complete record allows navigation
can_navigate_OnlyComplete(p) == p.status = "complete"

\* get_parse_status: can_navigate of a progress record
can_navigate(p) == p.items_parsed >= NavigateAfter \/ p.status = "complete"

NoStatus == [status |-> "none"]

\* get_parse_status, Ok(Some(progress))
status_of_progress(p) ==
    [status |-> p.status, items_parsed |-> p.items_parsed,
     groups_count |-> p.groups_count, series_count |-> p.series_count,
     current_phase |-> p.current_phase, error |-> p.error,
     can_navigate |-> can_navigate(p)]

\* faulty variant: a playlist without items counts as complete too
status_of_playlist_Empty(playlist) ==
    IF playlist # NoRow
    THEN [status |-> "complete", items_parsed |-> playlist.stats.total_items,
          groups_count |-> playlist.stats.group_count,
          series_count |-> playlist.stats.series_count,
          current_phase |-> "done", error |-> NoError, can_navigate |-> TRUE]
    ELSE [status |-> "not_found", error |-> "Playlist not found or not started",
          can_navigate |-> FALSE]

\* get_parse_status, Ok(None): a playlist with items is complete, anything
\* else is not_found
status_of_playlist(playlist) ==
    IF playlist # NoRow /\ playlist.stats.total_items > 0
    THEN [status |-> "complete", items_parsed |-> playlist.stats.total_items,
          groups_count |-> playlist.stats.group_count,
          series_count |-> playlist.stats.series_count,
          current_phase |-> "done", error |-> NoError, can_navigate |-> TRUE]
    ELSE [status |-> "not_found", error |-> "Playlist not found or not started",
          can_navigate |-> FALSE]

\* get_parse_status, Err(e)
status_of_error ==
    [status |-> "error", error |-> "redis error", can_navigate |-> FALSE]

NoParseResult == [result |-> "none"]

\* ---------------------------------------------------------------------
\* Sessions that hand a URL from a phone to the TV (routes/session.rs) and
\* the Redis key session:<id> (services/redis.rs).  Redis answers every
\* command; the TTL of a key is the step ExpireSession.
\* ---------------------------------------------------------------------

\* session ids: the first 12 hex digits of a fresh uuid, never reused
SessionIds == 1..MaxSessions

\* the poll requests in progress: axum serves each request on its own task
Pollers == 1..MaxPollers

\* the key session:<id> does not exist
NoSession == [url |-> "absent"]

\* RedisService::create_session: SETEX session:<id> {url: None}
create_session(s, id) == [s EXCEPT ![id] = [url |-> Null]]

\* RedisService::get_session
get_session(s, id) == s[id]

\* set_ex(session:<id>, session, ttl)
set_ex_session(s, id, session) == [s EXCEPT ![id] = session]

\* RedisService::del(session:<id>)
del_session(s, id) == [s EXCEPT ![id] = NoSession]

NoPollResp == [id |-> 0, status |-> 0, received |-> FALSE, url |-> Null]
NoSendResp == [id |-> 0, status |-> 0]
HandlerIdle == [pc |-> "idle", id |-> 0, url |-> Null]

\* no URL was stored or returned yet
NoUrls == [k \in SessionIds \X ValidUrls |-> 0]

\* the number of URLs counted by a history
RECURSIVE CountIn(_, _)
CountIn(f, keys) ==
    IF keys = {} THEN 0
    ELSE LET k == CHOOSE x \in keys : TRUE
         IN f[k] + CountIn(f, keys \ {k})

\* values of the handlers that are at rest
NoOrigin == [outcome |-> "none"]
NoXtReq == [endpoint |-> "none"]
NoXtResp == [status |-> 0]
NoPxReq == [url |-> <<>>]
NoPxResp == [status |-> 0]

\* CleanupResult::default()
CleanupResultDefault == [playlists_deleted |-> 0, watch_history_deleted |-> 0, errors |-> <<>>]

\* ---------------------------------------------------------------------
\* State
\* ---------------------------------------------------------------------

VARIABLES
    pc,           \* position of every request (handler, then spawned task)
    req,          \* the payload of every request: url and device_id
    resp,         \* the response the admission handler returned
    playlists,    \* PostgreSQL: the playlists table with its children
    processing,   \* Redis: processing:<hash> = job_id
    progress,     \* Redis: progress:<hash> = ParseProgress
    playlist_id,  \* task local: id returned by save_playlist
    stats,        \* task local: counters of the parse loop
    series_len,   \* task local: series_vec.len()
    metadata,     \* task local: stats of the metadata the parser returned
    error,        \* task local: the error the task failed with
    job_result,   \* how the spawned task ended: "none", "ok" or "failed"
    lockExpired,  \* history: processing:<hash> expired while it was held
    acquired,     \* history: the task acquired processing:<hash>
    wrote,        \* history: the task wrote a playlist row
    concurrent,   \* history: pairs of requests whose admissions overlapped
    ownedBefore,  \* history: ids of the rows delete_by_device removed
    hadItems,     \* history: the store held the request's hash with items on arrival
    at,           \* one ingestion: position of the task in the parser
    body,         \* one ingestion: the lines of the response body
    line_no,      \* one ingestion: the next line the reader returns
    loc,          \* one ingestion: the locals of parse_and_cache_with_progress
    writer,       \* one ingestion: the StreamingDbWriter and its transaction
    store,        \* one ingestion: the playlist row and its committed children
    prog,         \* one ingestion: Redis progress:<hash>
    held,         \* one ingestion: the task holds processing:<hash>
    parse_result, \* one ingestion: what the parser returned to the task
    poll,         \* status endpoint: position of the handler
    status_resp,  \* status endpoint: the last response
    sessions,     \* sessions: Redis session:<id>
    created,      \* sessions: number of sessions created so far
    tv,           \* sessions: the poll handlers (position and locals of each)
    mobile,       \* sessions: the send handler (its position and locals)
    poll_resp,    \* sessions: the last response of a poll
    send_resp,    \* sessions: the last response of a send
    received,     \* history: ids for which a poll answered received = true
    stored,       \* history: how often set_ex stored a URL in a session
    delivered,    \* history: how often a poll returned a URL of a session
    xt_pc,        \* Xtream list endpoint: position of the handler
    xt_req,       \* Xtream list endpoint: the request
    xt_origin,    \* Xtream list endpoint: what the origin answered
    xt_resp,      \* Xtream list endpoint: the response
    px_pc,        \* HLS proxy: position of the handler
    px_req,       \* HLS proxy: the query (url, referer)
    px_origin,    \* HLS proxy: the resource of the origin behind the URL
    px_timer,     \* HLS proxy: the pending await is wrapped in timeout()
    px_resp,      \* HLS proxy: the response
    cl_pc,        \* cleanup worker: position of start_cleanup_task
    cl_result,    \* cleanup worker: the CleanupResult of the running cycle
    cl_cycles,    \* cleanup worker: cycles completed (counted up to MaxCycles)
    cl_expired,   \* cleanup worker: playlists with expires_at < now
    cl_extra,     \* cleanup worker: watch history entries beyond the kept ones
    cl_warned,    \* cleanup worker: the messages logged in the running cycle
    ft_pc,        \* feed fetch: position of fetch_with_retry
    ft_max,       \* feed fetch: max_retries of the configuration
    ft_attempt,   \* feed fetch: the loop variable attempt
    ft_result,    \* feed fetch: how the function ended
    ft_sends,     \* history: requests sent by the running fetch
    ft_waits,     \* history: the waits of the running fetch, in ms
    cp_writer,    \* bulk copy: the writer of the last field, items or series
    cp_field,     \* bulk copy: the string field it was given
    cp_text,      \* bulk copy: the text of the field in the COPY line
    cf_called,    \* classifier: classify was called
    cf_name,      \* classifier: the name it was given
    cf_group,     \* classifier: the group it was given
    cf_kind       \* classifier: the MediaKind it returned

orchestrator == <<pc, req, resp, playlists, processing, progress, playlist_id, stats,
                  series_len, metadata, error, job_result, lockExpired, acquired,
                  wrote, concurrent, ownedBefore, hadItems>>

ingest == <<at, body, line_no, loc, writer, store, prog, held, parse_result, poll,
            status_resp>>

session_vars == <<sessions, created, tv, mobile, poll_resp, send_resp, received,
                  stored, delivered>>

xtream_vars == <<xt_pc, xt_req, xt_origin, xt_resp>>

proxy_vars == <<px_pc, px_req, px_origin, px_timer, px_resp>>

cleanup_vars == <<cl_pc, cl_result, cl_cycles, cl_expired, cl_extra, cl_warned>>

fetch_vars == <<ft_pc, ft_max, ft_attempt, ft_result, ft_sends, ft_waits>>

copy_vars == <<cp_writer, cp_field, cp_text>>

classifier_vars == <<cf_called, cf_name, cf_group, cf_kind>>

edge == <<session_vars, xtream_vars, proxy_vars, cleanup_vars, fetch_vars, copy_vars,
          classifier_vars>>

vars == <<orchestrator, ingest, edge>>

locals == <<playlist_id, stats, series_len, metadata, error>>
history == <<job_result, lockExpired, acquired, wrote, concurrent, ownedBefore>>

AdmissionPcs == {"a_delete_device", "a_check_progress", "a_find_cache",
                 "a_init_progress"}

Hash(i) == hash_url(req[i].url)
Device(i) == req[i].device

\* a complete playlist as an earlier run of the server leaves it
CachedRow(h, d) ==
    [id |-> InitId(h), device_id |-> d, total_items |-> MaxItems,
     group_count |-> 1, series_count |-> MaxItems - 1,
     expires_at |-> OldExpiry, item_rows |-> MaxItems, group_rows |-> 1,
     series_rows |-> 1]

\* The store is either empty or holds scenario E5: device D1 owns the
\* playlist of H1 and the playlist of H2 belongs to device D2.
InitPlaylists ==
    { [h \in Hashes |-> NoRow],
      [h \in Hashes |-> CachedRow(h, IF h = "H1" THEN "D1" ELSE "D2")] }

\* no session exists and no session handler runs
SessionIdle ==
    /\ sessions = [id \in SessionIds |-> NoSession]
    /\ created = 0
    /\ tv = [p \in Pollers |-> HandlerIdle]
    /\ mobile = HandlerIdle
    /\ poll_resp = NoPollResp
    /\ send_resp = NoSendResp
    /\ received = {}
    /\ stored = NoUrls
    /\ delivered = NoUrls

\* no Xtream list request is served
XtreamIdle ==
    /\ xt_pc = "idle"
    /\ xt_req = NoXtReq
    /\ xt_origin = NoOrigin
    /\ xt_resp = NoXtResp

\* no proxy request is served
ProxyIdle ==
    /\ px_pc = "idle"
    /\ px_req = NoPxReq
    /\ px_origin = NoOrigin
    /\ px_timer = FALSE
    /\ px_resp = NoPxResp

\* the cleanup worker is not started
CleanupIdle ==
    /\ cl_pc = "off"
    /\ cl_result = CleanupResultDefault
    /\ cl_cycles = 0
    /\ cl_expired = 0
    /\ cl_extra = 0
    /\ cl_warned = <<>>

\* no feed is being fetched
FetchIdle ==
    /\ ft_pc = "idle"
    /\ ft_max = 0
    /\ ft_attempt = 0
    /\ ft_result = "none"
    /\ ft_sends = 0
    /\ ft_waits = <<>>

\* no field was written to a COPY line
CopyIdle ==
    /\ cp_writer = "none"
    /\ cp_field = <<>>
    /\ cp_text = <<>>

\* the classifier was not called
ClassifierIdle ==
    /\ cf_called = FALSE
    /\ cf_name = <<>>
    /\ cf_group = <<>>
    /\ cf_kind = "unknown"

\* the handlers outside the ingestion are at rest
EdgeIdle ==
    /\ SessionIdle
    /\ XtreamIdle
    /\ ProxyIdle
    /\ CleanupIdle
    /\ FetchIdle
    /\ CopyIdle
    /\ ClassifierIdle

\* no detailed ingestion runs beside the requests
ParserIdle ==
    /\ at = "off"
    /\ body = <<>>
    /\ line_no = 1
    /\ loc = LoopInit
    /\ writer = NoWriter
    /\ store = NoStore
    /\ prog = NoProgress
    /\ held = FALSE
    /\ parse_result = NoParseResult
    /\ poll = "idle"
    /\ status_resp = NoStatus

Init ==
    /\ pc = [i \in Requests |-> "idle"]
    /\ req = [i \in Requests |-> NoReq]
    /\ resp = [i \in Requests |-> NoResp]
    /\ playlists \in InitPlaylists
    /\ processing = [h \in Hashes |-> NoLock]
    /\ progress = [h \in Hashes |-> NoProgress]
    /\ playlist_id = [i \in Requests |-> 0]
    /\ stats = [i \in Requests |-> DefaultStats]
    /\ series_len = [i \in Requests |-> 0]
    /\ metadata = [i \in Requests |-> NoMeta]
    /\ error = [i \in Requests |-> NoError]
    /\ job_result = [i \in Requests |-> "none"]
    /\ lockExpired = [h \in Hashes |-> FALSE]
    /\ acquired = [i \in Requests |-> FALSE]
    /\ wrote = [i \in Requests |-> FALSE]
    /\ concurrent = {}
    /\ ownedBefore = [i \in Requests |-> {}]
    /\ hadItems = [i \in Requests |-> FALSE]
    /\ ParserIdle
    /\ EdgeIdle

\* ---------------------------------------------------------------------
\* Admission handler: parse_playlist up to the spawn
\* ---------------------------------------------------------------------

\* A request arrives; requests are numbered in the order of arrival.
\* An invalid URL is answered 400 at once.
Submit(i) ==
    /\ pc[i] = "idle"
    /\ i > 1 => pc[i - 1] # "idle"
    /\ \E u \in Urls, d \in ReqDevices :
        IF ~IsValidUrl(u)
        THEN /\ pc' = [pc EXCEPT ![i] = "done"]
             /\ req' = [req EXCEPT ![i] = [url |-> u, device |-> d]]
             /\ resp' = [resp EXCEPT ![i] = [status |-> "bad_request", message |-> "URL invalida"]]
             /\ UNCHANGED <<concurrent, hadItems>>
        ELSE /\ pc' = [pc EXCEPT ![i] =
                    IF d = NoDevice THEN "a_check_progress" ELSE "a_delete_device"]
             /\ req' = [req EXCEPT ![i] = [url |-> u, device |-> d]]
             /\ concurrent' = concurrent \cup
                    {{i, k} : k \in {r \in Requests : pc[r] \in AdmissionPcs}}
             /\ hadItems' = [hadItems EXCEPT ![i] =
                    playlists[hash_url(u)] # NoRow
                        /\ playlists[hash_url(u)].total_items > 0]
             /\ UNCHANGED resp
    /\ UNCHANGED <<ingest, edge>>
    /\ UNCHANGED <<playlists, processing, progress, locals, job_result,
                   lockExpired, acquired, wrote, ownedBefore>>

\* Single playlist per device: delete_by_device(device_id)
DeleteByDevice(i) ==
    /\ pc[i] = "a_delete_device"
    /\ playlists' = delete_by_device(playlists, Device(i))
    /\ ownedBefore' = [ownedBefore EXCEPT ![i] =
            {playlists[h].id : h \in {g \in Hashes :
                playlists[g] # NoRow /\ playlists[g].device_id = Device(i)}}]
    /\ pc' = [pc EXCEPT ![i] = "a_check_progress"]
    /\ UNCHANGED <<ingest, edge, hadItems>>
    /\ UNCHANGED <<req, resp, processing, progress, locals, job_result,
                   lockExpired, acquired, wrote, concurrent>>

\* "Check if already parsing": get_parse_progress(hash)
CheckProgress(i) ==
    /\ pc[i] = "a_check_progress"
    /\ IF IsAlreadyParsing(progress[Hash(i)])
       THEN /\ resp' = [resp EXCEPT ![i] =
                    [status |-> "parsing", message |-> "Already parsing this playlist"]]
            /\ pc' = [pc EXCEPT ![i] = "done"]
       ELSE /\ pc' = [pc EXCEPT ![i] = "a_find_cache"]
            /\ UNCHANGED resp
    /\ UNCHANGED <<ingest, edge, hadItems>>
    /\ UNCHANGED <<req, playlists, processing, progress, locals, history>>

\* "Smart re-import": find_by_hash_any(hash), then either attach the
\* cached playlist to the device and answer complete, or delete the empty
\* playlist and go on
FindCache(i) ==
    /\ pc[i] = "a_find_cache"
    /\ LET h == Hash(i)
           existing == playlists[h]
       IN IF existing # NoRow /\ existing.total_items > 0
          THEN /\ playlists' =
                    IF Device(i) # NoDevice
                    THEN update_device_and_ttl(playlists, existing.id, Device(i), NowPlus1Day)
                    ELSE playlists
               /\ resp' = [resp EXCEPT ![i] =
                    [status |-> "complete", message |-> "Loaded from cache",
                     stats |-> to_stats(existing), groups |-> existing.group_rows]]
               /\ pc' = [pc EXCEPT ![i] = "done"]
          ELSE /\ playlists' =
                    IF existing # NoRow THEN delete_playlist(playlists, h) ELSE playlists
               /\ pc' = [pc EXCEPT ![i] = "a_init_progress"]
               /\ UNCHANGED resp
    /\ UNCHANGED <<ingest, edge, hadItems>>
    /\ UNCHANGED <<req, processing, progress, locals, history>>

\* set_parse_progress(hash, new_parsing()), tokio::spawn, and the answer
\* {status: parsing}
InitProgress(i) ==
    /\ pc[i] = "a_init_progress"
    /\ progress' = [progress EXCEPT ![Hash(i)] = new_parsing]
    /\ resp' = [resp EXCEPT ![i] =
            [status |-> "parsing", message |-> "Parsing started in background"]]
    /\ pc' = [pc EXCEPT ![i] = "j_acquire"]
    /\ UNCHANGED <<ingest, edge, hadItems>>
    /\ UNCHANGED <<req, playlists, processing, locals, history>>

\* ---------------------------------------------------------------------
\* Background task: the closure parse_playlist spawns
\* ---------------------------------------------------------------------

\* faulty variant: SET without NX overwrites a key that is held
set_nx_ex_NoNx(locks, h, job) == [locks EXCEPT ![h] = job]

\* RedisService::set_nx_ex: SET key value NX EX ttl
set_nx_ex(locks, h, job) == IF locks[h] = NoLock THEN [locks EXCEPT ![h] = job] ELSE locks

\* faulty variant: the key is not deleted
release_processing_lock_Skipped(locks, h) == locks

\* RedisService::release_processing_lock: DEL processing:<hash>
release_processing_lock(locks, h) == [locks EXCEPT ![h] = NoLock]

\* the task ends with result r and its locals go out of scope
Return(i, r) ==
    /\ pc' = [pc EXCEPT ![i] = "done"]
    /\ job_result' = [job_result EXCEPT ![i] = r]
    /\ playlist_id' = [playlist_id EXCEPT ![i] = 0]
    /\ stats' = [stats EXCEPT ![i] = DefaultStats]
    /\ series_len' = [series_len EXCEPT ![i] = 0]
    /\ metadata' = [metadata EXCEPT ![i] = NoMeta]
    /\ error' = [error EXCEPT ![i] = NoError]

Fail(i, e, next) ==
    /\ error' = [error EXCEPT ![i] = e]
    /\ pc' = [pc EXCEPT ![i] = next]

\* acquire_processing_lock(hash, job_id, 600)
AcquireLock(i) ==
    /\ pc[i] = "j_acquire"
    /\ processing' = set_nx_ex(processing, Hash(i), i)
    /\ IF processing'[Hash(i)] = i
       THEN /\ acquired' = [acquired EXCEPT ![i] = TRUE]
            /\ pc' = [pc EXCEPT ![i] = "p_cache_check"]
            /\ UNCHANGED error
       ELSE /\ Fail(i, "Failed to acquire lock", "j_lock_denied")
            /\ UNCHANGED acquired
    /\ UNCHANGED <<ingest, edge, hadItems>>
    /\ UNCHANGED <<req, resp, playlists, progress, playlist_id, stats, series_len,
                   metadata, job_result, lockExpired, wrote, concurrent, ownedBefore>>

\* the lock was denied: publish failed and return
LockDenied(i) ==
    /\ pc[i] = "j_lock_denied"
    /\ progress' = [progress EXCEPT ![Hash(i)] = failed(new_parsing, error[i])]
    /\ Return(i, "failed")
    /\ UNCHANGED <<ingest, edge, hadItems>>
    /\ UNCHANGED <<req, resp, playlists, processing, lockExpired, acquired, wrote,
                   concurrent, ownedBefore>>

\* parse_and_cache_with_progress: get_metadata(hash) is Some: cache hit
CacheCheck(i) ==
    /\ pc[i] = "p_cache_check"
    /\ IF playlists[Hash(i)] # NoRow
       THEN /\ metadata' = [metadata EXCEPT ![i] = to_stats(playlists[Hash(i)])]
            /\ pc' = [pc EXCEPT ![i] = "j_release_ok"]
       ELSE /\ pc' = [pc EXCEPT ![i] = "p_downloading"]
            /\ UNCHANGED metadata
    /\ UNCHANGED <<ingest, edge, hadItems>>
    /\ UNCHANGED <<req, resp, playlists, processing, progress, playlist_id, stats,
                   series_len, error, history>>

\* "Update progress to downloading"
PublishDownloading(i) ==
    /\ pc[i] = "p_downloading"
    /\ progress' = [progress EXCEPT ![Hash(i)] = new_parsing]
    /\ pc' = [pc EXCEPT ![i] = "p_fetch"]
    /\ UNCHANGED <<ingest, edge, hadItems>>
    /\ UNCHANGED <<req, resp, playlists, processing, locals, history>>

\* fetch_with_retry, then "Update progress to parsing"
Fetch(i) ==
    /\ pc[i] = "p_fetch"
    /\ \/ /\ Fail(i, "Failed to fetch playlist", "j_release_err")
          /\ UNCHANGED progress
       \/ /\ progress' = [progress EXCEPT ![Hash(i)] =
                [new_parsing EXCEPT !.current_phase = "parsing"]]
          /\ pc' = [pc EXCEPT ![i] = "p_save_playlist"]
          /\ UNCHANGED error
    /\ UNCHANGED <<ingest, edge, hadItems>>
    /\ UNCHANGED <<req, resp, playlists, processing, playlist_id, stats, series_len,
                   metadata, history>>

\* save_playlist(hash, url, default stats, None), then
\* create_streaming_writer(playlist_id)
SavePlaylist(i) ==
    /\ pc[i] = "p_save_playlist"
    /\ \/ /\ Fail(i, "Failed to create playlist record", "j_release_err")
          /\ UNCHANGED <<playlists, playlist_id, wrote>>
       \/ /\ playlists' = upsert_playlist(playlists, Hash(i), i)
          /\ playlist_id' = [playlist_id EXCEPT ![i] = playlists'[Hash(i)].id]
          /\ wrote' = [wrote EXCEPT ![i] = TRUE]
          /\ \/ Fail(i, "Failed to create streaming writer", "j_release_err")
             \/ /\ pc' = [pc EXCEPT ![i] = "p_parse"]
                /\ UNCHANGED error
    /\ UNCHANGED <<ingest, edge, hadItems>>
    /\ UNCHANGED <<req, resp, processing, progress, stats, series_len, metadata,
                   job_result, lockExpired, acquired, concurrent, ownedBefore>>

\* the errors that leave the parse loop through parse_error, and the
\* missing header found after the loop
ParseErrors == {"Timed out while reading playlist line", "write_item failed",
                "Invalid playlist format (missing #EXTM3U header)"}

\* The main parsing loop over a feed with fewer items than a batch:
\* a parse error or a missing header deletes the playlist and returns the
\* error; otherwise "Update progress to building_groups"
ParseFeed(i) ==
    /\ pc[i] = "p_parse"
    /\ \/ /\ \E e \in ParseErrors : Fail(i, e, "j_release_err")
          /\ playlists' = delete_playlist(playlists, Hash(i))
          /\ UNCHANGED <<progress, stats, series_len>>
       \/ /\ \E n \in {0, MaxItems} :
                /\ stats' = [stats EXCEPT ![i] = FeedStats(n)]
                /\ series_len' = [series_len EXCEPT ![i] = FeedSeries(n)]
                /\ progress' = [progress EXCEPT ![Hash(i)] =
                        [new_parsing EXCEPT !.status = "building_groups",
                                            !.current_phase = "building_groups",
                                            !.items_parsed = n]]
          /\ pc' = [pc EXCEPT ![i] = "p_finish"]
          /\ UNCHANGED <<playlists, error>>
    /\ UNCHANGED <<ingest, edge, hadItems>>
    /\ UNCHANGED <<req, resp, processing, playlist_id, metadata, history>>

\* the row the task's playlist_id refers to still exists
OwnRowExists(i) ==
    playlists[Hash(i)] # NoRow /\ playlists[Hash(i)].id = playlist_id[i]

\* writer.finish(): COPY the batch and commit; the items reference
\* playlist_id, so the copy fails when that row is gone
WriterFinish(i) ==
    /\ pc[i] = "p_finish"
    /\ \/ /\ Fail(i, "Failed to finish writing items", "j_release_err")
          /\ UNCHANGED playlists
       \/ /\ OwnRowExists(i) \/ stats[i].total_items = 0
          /\ playlists' = IF OwnRowExists(i)
                          THEN [playlists EXCEPT ![Hash(i)].item_rows = stats[i].total_items]
                          ELSE playlists
          /\ pc' = [pc EXCEPT ![i] = "p_building_series"]
          /\ UNCHANGED error
    /\ UNCHANGED <<ingest, edge, hadItems>>
    /\ UNCHANGED <<req, resp, processing, progress, playlist_id, stats, series_len,
                   metadata, history>>

\* "Update progress for series phase": the status stays building_groups
PublishBuildingSeries(i) ==
    /\ pc[i] = "p_building_series"
    /\ progress' = [progress EXCEPT ![Hash(i)] =
            [new_parsing EXCEPT !.status = "building_groups",
                                !.current_phase = "building_series",
                                !.items_parsed = stats[i].total_items,
                                !.groups_count = stats[i].group_count]]
    /\ pc' = [pc EXCEPT ![i] = "p_save_groups"]
    /\ UNCHANGED <<ingest, edge, hadItems>>
    /\ UNCHANGED <<req, resp, playlists, processing, locals, history>>

\* save_groups(playlist_id, groups_vec)
SaveGroups(i) ==
    /\ pc[i] = "p_save_groups"
    /\ \/ /\ Fail(i, "Failed to save groups", "j_release_err")
          /\ UNCHANGED playlists
       \/ /\ OwnRowExists(i) \/ stats[i].group_count = 0
          /\ playlists' = IF OwnRowExists(i)
                          THEN [playlists EXCEPT ![Hash(i)].group_rows = stats[i].group_count]
                          ELSE playlists
          /\ pc' = [pc EXCEPT ![i] = "p_save_series"]
          /\ UNCHANGED error
    /\ UNCHANGED <<ingest, edge, hadItems>>
    /\ UNCHANGED <<req, resp, processing, progress, playlist_id, stats, series_len,
                   metadata, history>>

\* save_series(playlist_id, series_vec)
SaveSeries(i) ==
    /\ pc[i] = "p_save_series"
    /\ \/ /\ Fail(i, "Failed to save series", "j_release_err")
          /\ UNCHANGED playlists
       \/ /\ OwnRowExists(i) \/ series_len[i] = 0
          /\ playlists' = IF OwnRowExists(i)
                          THEN [playlists EXCEPT ![Hash(i)].series_rows = series_len[i]]
                          ELSE playlists
          /\ pc' = [pc EXCEPT ![i] = "p_update_stats"]
          /\ UNCHANGED error
    /\ UNCHANGED <<ingest, edge, hadItems>>
    /\ UNCHANGED <<req, resp, processing, progress, playlist_id, stats, series_len,
                   metadata, history>>

\* update_stats(hash, stats): "Playlist not found" when no row has the hash
UpdateStats(i) ==
    /\ pc[i] = "p_update_stats"
    /\ \/ /\ Fail(i, "Failed to update stats", "j_release_err")
          /\ UNCHANGED playlists
       \/ /\ playlists[Hash(i)] # NoRow
          /\ playlists' = update_stats(playlists, Hash(i), stats[i])
          /\ pc' = [pc EXCEPT ![i] = "p_complete"]
          /\ UNCHANGED error
    /\ UNCHANGED <<ingest, edge, hadItems>>
    /\ UNCHANGED <<req, resp, processing, progress, playlist_id, stats, series_len,
                   metadata, history>>

\* "Update progress to complete", still inside the parser
PublishComplete(i) ==
    /\ pc[i] = "p_complete"
    /\ progress' = [progress EXCEPT ![Hash(i)] =
            [status |-> "complete", items_parsed |-> stats[i].total_items,
             groups_count |-> stats[i].group_count, series_count |-> series_len[i],
             current_phase |-> "done", error |-> NoError]]
    /\ pc' = [pc EXCEPT ![i] = "p_get_metadata"]
    /\ UNCHANGED <<ingest, edge, hadItems>>
    /\ UNCHANGED <<req, resp, playlists, processing, locals, history>>

\* "Return metadata": get_metadata(hash), whose error is returned, and an
\* error when it is None
GetMetadata(i) ==
    /\ pc[i] = "p_get_metadata"
    /\ \/ /\ Fail(i, "error returned from database", "j_release_err")
          /\ UNCHANGED metadata
       \/ IF playlists[Hash(i)] = NoRow
          THEN /\ Fail(i, "Failed to retrieve saved metadata", "j_release_err")
               /\ UNCHANGED metadata
          ELSE /\ metadata' = [metadata EXCEPT ![i] = to_stats(playlists[Hash(i)])]
               /\ pc' = [pc EXCEPT ![i] = "j_release_ok"]
               /\ UNCHANGED error
    /\ UNCHANGED <<ingest, edge, hadItems>>
    /\ UNCHANGED <<req, resp, playlists, processing, progress, playlist_id, stats,
                   series_len, history>>

\* Ok(metadata): "Release processing lock"
ReleaseOk(i) ==
    /\ pc[i] = "j_release_ok"
    /\ processing' = release_processing_lock(processing, Hash(i))
    /\ pc' = [pc EXCEPT ![i] = "j_attach"]
    /\ UNCHANGED <<ingest, edge, hadItems>>
    /\ UNCHANGED <<req, resp, playlists, progress, locals, history>>

\* Ok(metadata): "Update playlist with device_id and 1-day TTL"; a failure
\* of the lookup or of the update is logged or ignored and the task goes on
Attach(i) ==
    /\ pc[i] = "j_attach"
    /\ LET playlist == playlists[Hash(i)]
       IN \/ playlists' =
                IF playlist = NoRow THEN playlists
                ELSE IF Device(i) # NoDevice
                     THEN update_device_and_ttl(playlists, playlist.id, Device(i),
                                                NowPlus1Day)
                     ELSE update_ttl(playlists, playlist.id, NowPlus1Day)
          \/ UNCHANGED playlists
    /\ pc' = [pc EXCEPT ![i] = "j_mark_complete"]
    /\ UNCHANGED <<ingest, edge, hadItems>>
    /\ UNCHANGED <<req, resp, processing, progress, locals, history>>

\* Ok(metadata): "Mark progress as complete"
MarkComplete(i) ==
    /\ pc[i] = "j_mark_complete"
    /\ progress' = [progress EXCEPT ![Hash(i)] =
            complete([new_parsing EXCEPT !.items_parsed = metadata[i].total_items],
                     metadata[i].group_count, metadata[i].series_count)]
    /\ Return(i, "ok")
    /\ UNCHANGED <<ingest, edge, hadItems>>
    /\ UNCHANGED <<req, resp, playlists, processing, lockExpired, acquired, wrote,
                   concurrent, ownedBefore>>

\* Err(e): "Release processing lock"
ReleaseErr(i) ==
    /\ pc[i] = "j_release_err"
    /\ processing' = release_processing_lock(processing, Hash(i))
    /\ pc' = [pc EXCEPT ![i] = "j_mark_failed"]
    /\ UNCHANGED <<ingest, edge, hadItems>>
    /\ UNCHANGED <<req, resp, playlists, progress, locals, history>>

\* Err(e): "Mark progress as failed"
MarkFailed(i) ==
    /\ pc[i] = "j_mark_failed"
    /\ progress' = [progress EXCEPT ![Hash(i)] = failed(new_parsing, error[i])]
    /\ Return(i, "failed")
    /\ UNCHANGED <<ingest, edge, hadItems>>
    /\ UNCHANGED <<req, resp, playlists, processing, lockExpired, acquired, wrote,
                   concurrent, ownedBefore>>

\* Redis drops processing:<hash> when its TTL of 600 s runs out
ExpireLock(h) ==
    /\ processing[h] # NoLock
    /\ processing' = [processing EXCEPT ![h] = NoLock]
    /\ lockExpired' = [lockExpired EXCEPT ![h] = TRUE]
    /\ UNCHANGED <<ingest, edge, hadItems>>
    /\ UNCHANGED <<pc, req, resp, playlists, progress, locals, job_result,
                   acquired, wrote, concurrent, ownedBefore>>

Next ==
    \/ \E i \in Requests : Submit(i)
    \/ \E i \in Requests : DeleteByDevice(i)
    \/ \E i \in Requests : CheckProgress(i)
    \/ \E i \in Requests : FindCache(i)
    \/ \E i \in Requests : InitProgress(i)
    \/ \E i \in Requests : AcquireLock(i)
    \/ \E i \in Requests : LockDenied(i)
    \/ \E i \in Requests : CacheCheck(i)
    \/ \E i \in Requests : PublishDownloading(i)
    \/ \E i \in Requests : Fetch(i)
    \/ \E i \in Requests : SavePlaylist(i)
    \/ \E i \in Requests : ParseFeed(i)
    \/ \E i \in Requests : WriterFinish(i)
    \/ \E i \in Requests : PublishBuildingSeries(i)
    \/ \E i \in Requests : SaveGroups(i)
    \/ \E i \in Requests : SaveSeries(i)
    \/ \E i \in Requests : UpdateStats(i)
    \/ \E i \in Requests : PublishComplete(i)
    \/ \E i \in Requests : GetMetadata(i)
    \/ \E i \in Requests : ReleaseOk(i)
    \/ \E i \in Requests : Attach(i)
    \/ \E i \in Requests : MarkComplete(i)
    \/ \E i \in Requests : ReleaseErr(i)
    \/ \E i \in Requests : MarkFailed(i)
    \/ \E h \in Hashes : ExpireLock(h)

Spec == Init /\ [][Next]_vars

\* ---------------------------------------------------------------------
\* One ingestion, line by line: the task that holds the lock of its hash
\* runs parse_and_cache_with_progress on a feed, while a client polls
\* GET /api/playlist/:hash/status
\* ---------------------------------------------------------------------

\* the admission has published new_parsing and spawned the task, the task
\* has acquired the lock; no playlist of the hash is stored
ParserInit ==
    /\ at = "start"
    /\ body \in Feeds
    /\ line_no = 1
    /\ loc = LoopInit
    /\ writer = NoWriter
    /\ store = NoStore
    /\ prog = new_parsing
    /\ held = TRUE
    /\ parse_result = NoParseResult
    /\ poll = "idle"
    /\ status_resp = NoStatus
    /\ pc = [i \in Requests |-> "idle"]
    /\ req = [i \in Requests |-> NoReq]
    /\ resp = [i \in Requests |-> NoResp]
    /\ playlists = [h \in Hashes |-> NoRow]
    /\ processing = [h \in Hashes |-> NoLock]
    /\ progress = [h \in Hashes |-> NoProgress]
    /\ playlist_id = [i \in Requests |-> 0]
    /\ stats = [i \in Requests |-> DefaultStats]
    /\ series_len = [i \in Requests |-> 0]
    /\ metadata = [i \in Requests |-> NoMeta]
    /\ error = [i \in Requests |-> NoError]
    /\ job_result = [i \in Requests |-> "none"]
    /\ lockExpired = [h \in Hashes |-> FALSE]
    /\ acquired = [i \in Requests |-> FALSE]
    /\ wrote = [i \in Requests |-> FALSE]
    /\ concurrent = {}
    /\ ownedBefore = [i \in Requests |-> {}]
    /\ hadItems = [i \in Requests |-> FALSE]
    /\ EdgeIdle

\* the parser returns Err(e): the writer, if open, is dropped
ReturnErr(e) ==
    /\ parse_result' = [result |-> "err", error |-> e]
    /\ at' = "task_err"
    /\ writer' = IF writer.state = "open" THEN [writer EXCEPT !.state = "rolled_back"]
                 ELSE writer

\* get_metadata(hash) is Some: cache hit; otherwise "Update progress to
\* downloading"
StartParse ==
    /\ at = "start"
    /\ IF store.playlist # NoRow
       THEN /\ parse_result' = [result |-> "ok", meta |-> store.playlist.stats]
            /\ at' = "task_ok"
            /\ UNCHANGED <<prog, loc>>
       ELSE /\ prog' = new_parsing
            /\ loc' = [loc EXCEPT !.progress = new_parsing]
            /\ at' = "fetch"
            /\ UNCHANGED parse_result
    /\ UNCHANGED <<body, line_no, writer, store, held, poll, status_resp, orchestrator, edge>>

\* fetch_with_retry, then "Update progress to parsing"
FetchFeed ==
    /\ at = "fetch"
    /\ \/ /\ ReturnErr("Failed to fetch playlist")
          /\ UNCHANGED <<prog, loc>>
       \/ /\ loc' = [loc EXCEPT !.progress.current_phase = "parsing"]
          /\ prog' = loc'.progress
          /\ at' = "create"
          /\ UNCHANGED <<parse_result, writer>>
    /\ UNCHANGED <<body, line_no, store, held, poll, status_resp, orchestrator, edge>>

\* save_playlist(hash, url, default stats, None), then
\* create_streaming_writer(playlist_id)
CreatePlaylist ==
    /\ at = "create"
    /\ \/ /\ ReturnErr("Failed to create playlist record")
          /\ UNCHANGED store
       \/ /\ store' = insert_playlist(store)
          /\ \/ ReturnErr("Failed to create streaming writer")
             \/ /\ writer' = NewWriter
                /\ at' = "loop"
                /\ UNCHANGED parse_result
    /\ UNCHANGED <<body, line_no, loc, prog, held, poll, status_resp, orchestrator, edge>>

\* One pass of the main parsing loop that reads a line: the read times
\* out, or the line is processed; a retained item goes to the writer, whose
\* flush of a full batch can fail, and every ProgressEvery items the
\* progress is published
ReadLine ==
    /\ at = "loop"
    /\ line_no <= Len(body)
    /\ \/ /\ loc' = [loc EXCEPT !.parse_error = "Timed out while reading playlist line"]
          /\ at' = "parse_error"
          /\ UNCHANGED <<line_no, writer, prog>>
       \/ LET r == ProcessLine(loc, body[line_no])
          IN IF r.loc.parse_error # NoError
             THEN /\ loc' = r.loc
                  /\ at' = "parse_error"
                  /\ UNCHANGED <<line_no, writer, prog>>
             ELSE IF r.item = NoItem
             THEN /\ loc' = r.loc
                  /\ line_no' = line_no + 1
                  /\ UNCHANGED <<at, writer, prog>>
             ELSE \/ /\ Len(writer.batch) + 1 >= batch_size
                     /\ loc' = [r.loc EXCEPT !.parse_error = "write_item failed"]
                     /\ at' = "parse_error"
                     /\ UNCHANGED <<line_no, writer, prog>>
                  \/ /\ writer' = write_item(writer, r.item)
                     /\ line_no' = line_no + 1
                     /\ LET n == r.loc.item_index + 1
                        IN IF n % ProgressEvery = 0
                           THEN /\ loc' = [r.loc EXCEPT
                                    !.item_index = n,
                                    !.progress.items_parsed = n,
                                    !.progress.groups_count = Cardinality(DOMAIN r.loc.groups)]
                                /\ prog' = loc'.progress
                           ELSE /\ loc' = [r.loc EXCEPT !.item_index = n]
                                /\ UNCHANGED prog
                     /\ UNCHANGED at
    /\ UNCHANGED <<body, store, held, parse_result, poll, status_resp, orchestrator, edge>>

\* "Handle parse errors": delete_playlist(hash) and return the error
HandleParseError ==
    /\ at = "parse_error"
    /\ store' = [NoStore EXCEPT !.items = drop_writer(<<>>, writer)]
    /\ ReturnErr(loc.parse_error)
    /\ UNCHANGED <<body, line_no, loc, prog, held, poll, status_resp, orchestrator, edge>>

\* The stream has ended (bytes_read == 0): flush the final run; without
\* header delete the playlist and fail; else "Update progress to
\* building_groups"
EndOfStream ==
    /\ at = "loop"
    /\ line_no > Len(body)
    /\ LET flushed == [loc EXCEPT
                !.series_accum = flush_run_to_accumulator(@, loc.current_run),
                !.current_run = NoRun]
       IN IF missing_header(loc)
          THEN /\ store' = [NoStore EXCEPT !.items = drop_writer(<<>>, writer)]
               /\ ReturnErr("Invalid playlist format (missing #EXTM3U header)")
               /\ loc' = flushed
               /\ UNCHANGED prog
          ELSE /\ loc' = [flushed EXCEPT
                            !.progress.items_parsed = loc.item_index,
                            !.progress.current_phase = "building_groups",
                            !.progress.status = "building_groups"]
               /\ prog' = loc'.progress
               /\ at' = "finish"
               /\ UNCHANGED <<store, parse_result, writer>>
    /\ UNCHANGED <<body, line_no, held, poll, status_resp, orchestrator, edge>>

\* writer.finish(): flush and commit; then groups_vec, "Update progress
\* for series phase" and series_vec
FinishItems ==
    /\ at = "finish"
    /\ \/ /\ ReturnErr("Failed to finish writing items")
          /\ store' = [store EXCEPT !.items = drop_writer(@, writer)]
          /\ UNCHANGED <<loc, prog>>
       \/ /\ store' = [store EXCEPT !.items = finish(@, writer)]
          /\ writer' = [flush_batch(writer) EXCEPT !.state = "committed"]
          /\ loc' = [loc EXCEPT
                        !.groups_vec = groups_vec_of(loc.groups),
                        !.stats.group_count = Cardinality(DOMAIN loc.groups),
                        !.progress.current_phase = "building_series",
                        !.progress.groups_count = Cardinality(DOMAIN loc.groups),
                        !.series_vec = series_vec_of(loc.series_accum)]
          /\ prog' = loc'.progress
          /\ at' = "save_groups"
          /\ UNCHANGED parse_result
    /\ UNCHANGED <<body, line_no, held, poll, status_resp, orchestrator, edge>>

\* save_groups(playlist_id, groups_vec)
PersistGroups ==
    /\ at = "save_groups"
    /\ \/ /\ ReturnErr("Failed to save groups")
          /\ UNCHANGED store
       \/ /\ store' = [store EXCEPT !.groups = loc.groups_vec]
          /\ at' = "save_series"
          /\ UNCHANGED <<parse_result, writer>>
    /\ UNCHANGED <<body, line_no, loc, prog, held, poll, status_resp, orchestrator, edge>>

\* save_series(playlist_id, series_vec)
PersistSeries ==
    /\ at = "save_series"
    /\ \/ /\ ReturnErr("Failed to save series")
          /\ UNCHANGED store
       \/ /\ store' = [store EXCEPT !.series = loc.series_vec]
          /\ at' = "update_stats"
          /\ UNCHANGED <<parse_result, writer>>
    /\ UNCHANGED <<body, line_no, loc, prog, held, poll, status_resp, orchestrator, edge>>

\* update_stats(hash, stats)
PersistStats ==
    /\ at = "update_stats"
    /\ \/ /\ ReturnErr("Failed to update stats")
          /\ UNCHANGED store
       \/ /\ store' = [store EXCEPT !.playlist.stats = loc.stats]
          /\ at' = "complete"
          /\ UNCHANGED <<parse_result, writer>>
    /\ UNCHANGED <<body, line_no, loc, prog, held, poll, status_resp, orchestrator, edge>>

\* "Update progress to complete", then "Return metadata": get_metadata
\* returns the metadata or its error
PublishDone ==
    /\ at = "complete"
    /\ loc' = [loc EXCEPT !.progress.series_count = Len(loc.series_vec),
                          !.progress.current_phase = "done",
                          !.progress.status = "complete"]
    /\ prog' = loc'.progress
    /\ \/ /\ parse_result' = [result |-> "ok", meta |-> store.playlist.stats]
          /\ at' = "task_ok"
          /\ UNCHANGED writer
       \/ ReturnErr("error returned from database")
    /\ UNCHANGED <<body, line_no, store, held, poll, status_resp, orchestrator, edge>>

\* the task's Ok(metadata) arm: release the lock, set the 1-day TTL (the
\* request names no device), mark progress complete
TaskOk ==
    /\ at = "task_ok"
    /\ held' = FALSE
    /\ store' = IF store.playlist = NoRow THEN store
                ELSE [store EXCEPT !.playlist.expires_at = NowPlus1Day]
    /\ prog' = complete([new_parsing EXCEPT !.items_parsed = parse_result.meta.total_items],
                        parse_result.meta.group_count, parse_result.meta.series_count)
    /\ at' = "done"
    /\ UNCHANGED <<body, line_no, loc, writer, parse_result, poll, status_resp,
                   orchestrator, edge>>

\* the task's Err(e) arm: release the lock, mark progress failed
TaskErr ==
    /\ at = "task_err"
    /\ held' = FALSE
    /\ prog' = failed(new_parsing, parse_result.error)
    /\ at' = "done"
    /\ UNCHANGED <<body, line_no, loc, writer, store, parse_result, poll, status_resp,
                   orchestrator, edge>>

\* Redis drops progress:<hash> when its TTL runs out after the task
ExpireProgress ==
    /\ at = "done"
    /\ prog # NoProgress
    /\ prog' = NoProgress
    /\ UNCHANGED <<at, body, line_no, loc, writer, store, held, parse_result, poll,
                   status_resp, orchestrator, edge>>

\* get_parse_status: get_parse_progress(hash) fails, returns the record,
\* or returns None
StatusReadProgress ==
    /\ poll = "idle"
    /\ \/ /\ status_resp' = status_of_error
          /\ UNCHANGED poll
       \/ /\ prog # NoProgress
          /\ status_resp' = status_of_progress(prog)
          /\ UNCHANGED poll
       \/ /\ prog = NoProgress
          /\ poll' = "db"
          /\ UNCHANGED status_resp
    /\ UNCHANGED <<at, body, line_no, loc, writer, store, prog, held, parse_result,
                   orchestrator, edge>>

\* get_parse_status: get_playlist_by_hash(hash) after Ok(None)
StatusReadPlaylist ==
    /\ poll = "db"
    /\ status_resp' = status_of_playlist(store.playlist)
    /\ poll' = "idle"
    /\ UNCHANGED <<at, body, line_no, loc, writer, store, prog, held, parse_result,
                   orchestrator, edge>>

ParserNext ==
    \/ StartParse
    \/ FetchFeed
    \/ CreatePlaylist
    \/ ReadLine
    \/ HandleParseError
    \/ EndOfStream
    \/ FinishItems
    \/ PersistGroups
    \/ PersistSeries
    \/ PersistStats
    \/ PublishDone
    \/ TaskOk
    \/ TaskErr
    \/ ExpireProgress
    \/ StatusReadProgress
    \/ StatusReadPlaylist

ParserSpec == ParserInit /\ [][ParserNext]_vars

\* ---------------------------------------------------------------------
\* Sessions: POST /session/create, GET /session/:id/poll by the TV and
\* POST /session/:id/send by the phone.  A step of a handler is one Redis
\* command.
\* ---------------------------------------------------------------------

\* no request is admitted beside the handlers of the model at hand
OrchestratorIdle ==
    /\ pc = [i \in Requests |-> "idle"]
    /\ req = [i \in Requests |-> NoReq]
    /\ resp = [i \in Requests |-> NoResp]
    /\ playlists = [h \in Hashes |-> NoRow]
    /\ processing = [h \in Hashes |-> NoLock]
    /\ progress = [h \in Hashes |-> NoProgress]
    /\ playlist_id = [i \in Requests |-> 0]
    /\ stats = [i \in Requests |-> DefaultStats]
    /\ series_len = [i \in Requests |-> 0]
    /\ metadata = [i \in Requests |-> NoMeta]
    /\ error = [i \in Requests |-> NoError]
    /\ job_result = [i \in Requests |-> "none"]
    /\ lockExpired = [h \in Hashes |-> FALSE]
    /\ acquired = [i \in Requests |-> FALSE]
    /\ wrote = [i \in Requests |-> FALSE]
    /\ concurrent = {}
    /\ ownedBefore = [i \in Requests |-> {}]
    /\ hadItems = [i \in Requests |-> FALSE]

SessionInit ==
    /\ OrchestratorIdle
    /\ ParserIdle
    /\ EdgeIdle

\* create_session: a fresh id, then SETEX of the shell {url: None}
CreateSession ==
    /\ created < MaxSessions
    /\ created' = created + 1
    /\ sessions' = create_session(sessions, created + 1)
    /\ UNCHANGED <<tv, mobile, poll_resp, send_resp, received, stored, delivered>>
    /\ UNCHANGED <<orchestrator, ingest, xtream_vars, proxy_vars, cleanup_vars,
                   fetch_vars, copy_vars, classifier_vars>>

\* poll_session: get_session(id); None is answered 404, a session without
\* URL is answered {url: None, received: false}; with a URL the handler
\* goes on to delete the key
PollGet(p, id) ==
    /\ tv[p].pc = "idle"
    /\ LET session == get_session(sessions, id)
       IN IF session = NoSession
          THEN /\ poll_resp' = [id |-> id, status |-> 404, received |-> FALSE, url |-> Null]
               /\ UNCHANGED tv
          ELSE IF session.url = Null
               THEN /\ poll_resp' = [id |-> id, status |-> 200, received |-> FALSE,
                                     url |-> Null]
                    /\ UNCHANGED tv
               ELSE /\ tv' = [tv EXCEPT ![p] = [pc |-> "del", id |-> id,
                                                url |-> session.url]]
                    /\ UNCHANGED poll_resp
    /\ UNCHANGED <<sessions, created, mobile, send_resp, received, stored, delivered>>
    /\ UNCHANGED <<orchestrator, ingest, xtream_vars, proxy_vars, cleanup_vars,
                   fetch_vars, copy_vars, classifier_vars>>

\* poll_session: "Delete session after URL is retrieved", then the answer
\* {url, received: true}
PollDel(p) ==
    /\ tv[p].pc = "del"
    /\ sessions' = del_session(sessions, tv[p].id)
    /\ poll_resp' = [id |-> tv[p].id, status |-> 200, received |-> TRUE,
                     url |-> tv[p].url]
    /\ received' = received \cup {tv[p].id}
    /\ delivered' = [delivered EXCEPT ![<<tv[p].id, tv[p].url>>] = @ + 1]
    /\ tv' = [tv EXCEPT ![p] = HandlerIdle]
    /\ UNCHANGED <<created, mobile, send_resp, stored>>
    /\ UNCHANGED <<orchestrator, ingest, xtream_vars, proxy_vars, cleanup_vars,
                   fetch_vars, copy_vars, classifier_vars>>

\* send_url: "Validate URL" (400), then "Check if session exists" (404)
SendCheck(id, u) ==
    /\ mobile.pc = "idle"
    /\ CountIn(stored, DOMAIN stored) < MaxSends
    /\ IF ~IsValidUrl(u)
       THEN /\ send_resp' = [id |-> id, status |-> 400]
            /\ UNCHANGED mobile
       ELSE IF get_session(sessions, id) = NoSession
            THEN /\ send_resp' = [id |-> id, status |-> 404]
                 /\ UNCHANGED mobile
            ELSE /\ mobile' = [pc |-> "get", id |-> id, url |-> u]
                 /\ UNCHANGED send_resp
    /\ UNCHANGED <<sessions, created, tv, poll_resp, received, stored, delivered>>
    /\ UNCHANGED <<orchestrator, ingest, xtream_vars, proxy_vars, cleanup_vars,
                   fetch_vars, copy_vars, classifier_vars>>

\* set_session_url: "Get existing session first"; when it is gone the
\* function returns Ok(false), which send_url answers as a success
SendGet ==
    /\ mobile.pc = "get"
    /\ IF get_session(sessions, mobile.id) = NoSession
       THEN /\ send_resp' = [id |-> mobile.id, status |-> 200]
            /\ mobile' = HandlerIdle
       ELSE /\ mobile' = [mobile EXCEPT !.pc = "set_ex"]
            /\ UNCHANGED send_resp
    /\ UNCHANGED <<sessions, created, tv, poll_resp, received, stored, delivered>>
    /\ UNCHANGED <<orchestrator, ingest, xtream_vars, proxy_vars, cleanup_vars,
                   fetch_vars, copy_vars, classifier_vars>>

\* set_session_url: session.url = Some(url); set_ex(session:<id>, session,
\* ttl), then the answer {success: true}
SendSetEx ==
    /\ mobile.pc = "set_ex"
    /\ sessions' = set_ex_session(sessions, mobile.id, [url |-> mobile.url])
    /\ send_resp' = [id |-> mobile.id, status |-> 200]
    /\ stored' = [stored EXCEPT ![<<mobile.id, mobile.url>>] = @ + 1]
    /\ mobile' = HandlerIdle
    /\ UNCHANGED <<created, tv, poll_resp, received, delivered>>
    /\ UNCHANGED <<orchestrator, ingest, xtream_vars, proxy_vars, cleanup_vars,
                   fetch_vars, copy_vars, classifier_vars>>

\* Redis drops session:<id> when its TTL runs out
ExpireSession(id) ==
    /\ sessions[id] # NoSession
    /\ sessions' = del_session(sessions, id)
    /\ UNCHANGED <<created, tv, mobile, poll_resp, send_resp, received, stored,
                   delivered>>
    /\ UNCHANGED <<orchestrator, ingest, xtream_vars, proxy_vars, cleanup_vars,
                   fetch_vars, copy_vars, classifier_vars>>

SessionNext ==
    \/ CreateSession
    \/ \E p \in Pollers, id \in SessionIds : PollGet(p, id)
    \/ \E p \in Pollers : PollDel(p)
    \/ \E id \in SessionIds, u \in Urls : SendCheck(id, u)
    \/ SendGet
    \/ SendSetEx
    \/ \E id \in SessionIds : ExpireSession(id)

SessionSpec == SessionInit /\ [][SessionNext]_vars

\* ---------------------------------------------------------------------
\* The Xtream list endpoints: /api/xtream/:playlist_id/categories/:type
\* and /api/xtream/:playlist_id/streams/:type
\* ---------------------------------------------------------------------

XtEndpoints == {"categories", "streams"}

\* the :type segment of the path; "movies" is none of live, vod, series
XtMediaTypes == {"live", "vod", "series", "movies"}

\* what :playlist_id names: an Xtream playlist, an M3U playlist, no
\* playlist, or a string that is not a UUID
XtPlaylistIds == {"xtream", "m3u", "missing", "not-a-uuid"}

\* the category_id of the query of the streams endpoint
XtCategoryIds == {Null, "5"}

\* the bodies the origin answers with status 2xx
XtTexts == {"", "[]", "null", "[a]", "[a,b]", "<html>"}

\* what the origin does with the request
XtOrigins ==
    {[outcome |-> "network"], [outcome |-> "http", status |-> 404],
     [outcome |-> "http", status |-> 500], [outcome |-> "body_error"]}
        \cup {[outcome |-> "text", text |-> t] : t \in XtTexts}

\* the action parameter of player_api.php for a list request
xtream_action(endpoint, media_type, category_id) ==
    LET base == IF endpoint = "categories"
                THEN IF media_type = "live" THEN "get_live_categories"
                     ELSE IF media_type = "vod" THEN "get_vod_categories"
                          ELSE "get_series_categories"
                ELSE IF media_type = "live" THEN "get_live_streams"
                     ELSE IF media_type = "vod" THEN "get_vod_streams"
                          ELSE "get_series"
    IN [action |-> base, category_id |-> category_id]

\* serde_json::from_str::<Vec<T>>(text)
from_str_vec(text) ==
    IF text = "[]" THEN [ok |-> TRUE, list |-> <<>>]
    ELSE IF text = "[a]" THEN [ok |-> TRUE, list |-> <<"a">>]
    ELSE IF text = "[a,b]" THEN [ok |-> TRUE, list |-> <<"a", "b">>]
    ELSE [ok |-> FALSE, error |-> "Parse"]

\* XtreamClient::get: a failed send or body read is Network, a status
\* outside 2xx is Http, the texts "", "[]" and "null" are EmptyResponse,
\* any other text is deserialized
client_get(origin) ==
    IF origin.outcome \in {"network", "body_error"} THEN [ok |-> FALSE, error |-> "Network"]
    ELSE IF origin.outcome = "http" THEN [ok |-> FALSE, error |-> "Http"]
    ELSE IF origin.text = "" \/ origin.text = "[]" \/ origin.text = "null"
         THEN [ok |-> FALSE, error |-> "Empty response"]
         ELSE from_str_vec(origin.text)

\* the items of the response: CategoryItem or StreamItem of every element
list_items(endpoint, media_type, list) ==
    [j \in 1..Len(list) |->
        IF endpoint = "categories" THEN [id |-> list[j]]
        ELSE [id |-> list[j], media_type |-> media_type]]

\* the answer of get_categories and get_streams for a result of the client
list_response(endpoint, media_type, result) ==
    IF result.ok
    THEN [status |-> 200, total |-> Len(result.list),
          items |-> list_items(endpoint, media_type, result.list)]
    ELSE [status |-> 502, error |-> result.error]

XtreamInit ==
    /\ OrchestratorIdle
    /\ ParserIdle
    /\ EdgeIdle

\* a list request arrives; parse_uuid answers 400 for a bad id
XtRequest(endpoint, playlist, media_type, category_id) ==
    /\ xt_pc = "idle"
    /\ endpoint = "categories" => category_id = Null
    /\ xt_req' = [endpoint |-> endpoint, playlist_id |-> playlist,
                  media_type |-> media_type, category_id |-> category_id]
    /\ xt_origin' = NoOrigin
    /\ IF playlist = "not-a-uuid"
       THEN xt_pc' = "done" /\ xt_resp' = [status |-> 400, error |-> "Invalid playlist ID format"]
       ELSE xt_pc' = "credentials" /\ xt_resp' = NoXtResp
    /\ UNCHANGED <<orchestrator, ingest, session_vars, proxy_vars, cleanup_vars,
                   fetch_vars, copy_vars, classifier_vars>>

\* get_xtream_credentials (500, 404, 400), then the match on the media
\* type, which answers 400 before any request to the origin
XtCredentials(db_ok) ==
    /\ xt_pc = "credentials"
    /\ IF ~db_ok
       THEN xt_pc' = "done" /\ xt_resp' = [status |-> 500, error |-> "Database error"]
       ELSE IF xt_req.playlist_id = "missing"
       THEN xt_pc' = "done" /\ xt_resp' = [status |-> 404, error |-> "Playlist not found"]
       ELSE IF xt_req.playlist_id = "m3u"
       THEN xt_pc' = "done" /\ xt_resp' = [status |-> 400, error |-> "Not an Xtream playlist"]
       ELSE IF xt_req.media_type \notin {"live", "vod", "series"}
       THEN xt_pc' = "done" /\ xt_resp' = [status |-> 400, error |-> "Invalid media type. Use: live, vod, or series"]
       ELSE xt_pc' = "origin" /\ UNCHANGED xt_resp
    /\ UNCHANGED <<xt_req, xt_origin>>
    /\ UNCHANGED <<orchestrator, ingest, session_vars, proxy_vars, cleanup_vars,
                   fetch_vars, copy_vars, classifier_vars>>

\* the origin answers the request of the client and the handler answers
\* its caller
XtOrigin(o) ==
    /\ xt_pc = "origin"
    /\ xt_origin' = o @@ [request |-> xtream_action(xt_req.endpoint, xt_req.media_type,
                                                    xt_req.category_id)]
    /\ xt_resp' = list_response(xt_req.endpoint, xt_req.media_type, client_get(o))
    /\ xt_pc' = "done"
    /\ UNCHANGED xt_req
    /\ UNCHANGED <<orchestrator, ingest, session_vars, proxy_vars, cleanup_vars,
                   fetch_vars, copy_vars, classifier_vars>>

\* the response has been sent; the next request can arrive
XtReturn ==
    /\ xt_pc = "done"
    /\ xt_pc' = "idle"
    /\ UNCHANGED <<xt_req, xt_origin, xt_resp>>
    /\ UNCHANGED <<orchestrator, ingest, session_vars, proxy_vars, cleanup_vars,
                   fetch_vars, copy_vars, classifier_vars>>

XtreamNext ==
    \/ \E e \in XtEndpoints, p \in XtPlaylistIds, m \in XtMediaTypes, c \in XtCategoryIds :
            XtRequest(e, p, m, c)
    \/ \E db_ok \in BOOLEAN : XtCredentials(db_ok)
    \/ \E o \in XtOrigins : XtOrigin(o)
    \/ XtReturn

XtreamSpec == XtreamInit /\ [][XtreamNext]_vars

\* ---------------------------------------------------------------------
\* The HLS proxy: GET /api/proxy/hls?url=<encoded>&referer=<optional>
\*
\* A string is the sequence of its tokens, so that a search, a slice and a
\* concatenation of the code are a search, a slice and a concatenation
\* here; a manifest is the sequence of its lines, without the white space
\* around them.
\* ---------------------------------------------------------------------

\* config.base_url of scenario E4
BASE_URL == <<"http:", "/", "/", "p">>

\* query.referer = None
NoReferer == <<>>

Referers == {NoReferer, <<"http:", "/", "/", "r", "/">>}

\* the URLs of the query: two with .m3u in them, two without, two that
\* are not HTTP URLs
ManifestUrlE4 == <<"http:", "/", "/", "o", "/", "a", "/", "b.m3u8">>

ProxyUrls ==
    {ManifestUrlE4,
     <<"https:", "/", "/", "o", "/", "list.m3u">>,
     <<"http:", "/", "/", "o", "/", "live", "/", "1">>,
     <<"http:", "/", "/", "o", "/", "a", "/", "seg1.ts">>,
     <<"ftp:", "/", "/", "o", "/", "x">>,
     <<>>}

\* the tokens in which the text .m3u occurs, and those with .m3u8
M3uTokens == {"b.m3u8", "list.m3u"}

M3u8Tokens == {"b.m3u8"}

\* the lines a manifest is made of
EmptyLine == <<>>

TagExtM3u == <<"#", "EXTM3U">>

TagKey == <<"#", "EXT-X-KEY:METHOD=AES-128,", "URI=\"", "key.bin", "\"">>

TagKeyIv == <<"#", "EXT-X-KEY:METHOD=AES-128,", "URI=\"", "key.bin", "\"", ",IV=0x1">>

DataRelative == <<"seg1.ts">>

DataAbsolute == <<"http:", "/", "/", "cdn", "/", "seg2.ts">>

DataRooted == <<"/", "hls", "/", "seg3.ts">>

ManifestLines ==
    {EmptyLine, TagExtM3u, TagKey, TagKeyIv, DataRelative, DataAbsolute, DataRooted}

\* the manifest of scenario E4
ManifestE4 == <<TagExtM3u, TagKey, DataRelative, DataAbsolute>>

\* the bodies of the origin: every manifest of up to MaxManifestLines
\* lines, and the one of scenario E4
Manifests ==
    UNION {[1..n -> ManifestLines] : n \in 0..MaxManifestLines} \cup {ManifestE4}

ContentTypes == {Null, "application/vnd.apple.mpegurl", "video/MP2T"}

\* what the origin does with the request of the proxy
ProxyOrigins ==
    {[outcome |-> "connect_error"], [outcome |-> "os_timeout"]}
        \cup [outcome : {"headers"}, status : {200, 404},
              content_type : ContentTypes, body : Manifests]

\* s.contains(t) for the tokens of T
contains(s, T) == \E j \in 1..Len(s) : s[j] \in T

\* s.find(t): the first position of the token, 0 for None
find(s, t) ==
    IF \E j \in 1..Len(s) : s[j] = t
    THEN CHOOSE j \in 1..Len(s) : s[j] = t /\ \A k \in 1..(j - 1) : s[k] # t
    ELSE 0

\* url.starts_with("http://") || url.starts_with("https://")
is_valid_http_url(url) ==
    /\ Len(url) >= 3
    /\ url[1] \in {"http:", "https:"}
    /\ url[2] = "/" /\ url[3] = "/"

guess_content_type(url) ==
    IF contains(url, M3u8Tokens) THEN "application/vnd.apple.mpegurl" ELSE "video/MP2T"

is_hls_manifest(content_type, url) ==
    \/ content_type = "application/vnd.apple.mpegurl"
    \/ contains(url, M3uTokens)

\* urlencoding::encode: every byte outside A-Z a-z 0-9 - _ . ~ is
\* percent-encoded
encode_token(t) ==
    IF t = "/" THEN "%2F"
    ELSE IF t = "http:" THEN "http%3A"
    ELSE IF t = "https:" THEN "https%3A"
    ELSE t

encode(s) == [j \in 1..Len(s) |-> encode_token(s[j])]

\* Url::join: a reference that starts with / replaces the path of the
\* base, any other replaces the last segment of the path
url_join(base, ref) ==
    LET origin == SubSeq(base, 1, 4)
        slashes == {j \in 5..Len(base) : base[j] = "/"}
        last == CHOOSE j \in slashes : \A k \in slashes : k <= j
    IN IF ref[1] = "/" THEN origin \o ref
       ELSE IF slashes = {} THEN origin \o <<"/">> \o ref
            ELSE SubSeq(base, 1, last) \o ref

resolve_url(url, base) ==
    IF is_valid_http_url(url) THEN url ELSE url_join(base, url)

build_proxy_url(target_url, proxy_base, referer) ==
    IF referer = NoReferer
    THEN proxy_base \o <<"/api/proxy/hls?url=">> \o encode(target_url)
    ELSE proxy_base \o <<"/api/proxy/hls?url=">> \o encode(target_url)
            \o <<"&referer=">> \o encode(referer)

\* rewrite_uri_attribute: uri_start is the position after URI=", uri_end
\* the position of the next quote in the rest; the result is
\* format!("{}URI=\"{}\"{}", &line[..uri_start], proxied,
\*         &line[uri_start + uri_end..])
rewrite_uri_attribute(line, base, proxy_base, referer) ==
    LET uri_start == find(line, "URI=\"")
        rest == SubSeq(line, uri_start + 1, Len(line))
        uri_end == find(rest, "\"")
        uri == SubSeq(rest, 1, uri_end - 1)
        proxied == build_proxy_url(resolve_url(uri, base), proxy_base, referer)
    IN IF uri_start = 0 THEN line
       ELSE IF uri_end = 0 THEN line
       ELSE SubSeq(line, 1, uri_start) \o <<"URI=\"">> \o proxied \o <<"\"">>
                \o SubSeq(rest, uri_end, Len(rest))

rewrite_line(line, base, proxy_base, referer) ==
    IF line = <<>> THEN <<>>
    ELSE IF line[1] = "#"
         THEN IF contains(line, {"URI=\"", "URI="})
              THEN rewrite_uri_attribute(line, base, proxy_base, referer)
              ELSE line
         ELSE build_proxy_url(resolve_url(line, base), proxy_base, referer)

rewrite_manifest_urls(manifest, base_url, proxy_base, referer) ==
    [j \in 1..Len(manifest) |-> rewrite_line(manifest[j], base_url, proxy_base, referer)]

\* the content type of the upstream response, or the guess from the URL
content_type_of(origin, url) ==
    IF origin.content_type # Null THEN origin.content_type ELSE guess_content_type(url)

\* "Determine upfront if this looks like a manifest"
looks_like_manifest(url) == contains(url, M3uTokens)

ProxyInit ==
    /\ OrchestratorIdle
    /\ ParserIdle
    /\ EdgeIdle

\* a request arrives: 400 for a URL that is not HTTP; otherwise the
\* request to the origin is sent, inside timeout() when the URL looks
\* like a manifest
ProxyRequest(url, referer, origin) ==
    /\ px_pc = "idle"
    /\ px_req' = [url |-> url, referer |-> referer]
    /\ IF url = <<>> \/ ~is_valid_http_url(url)
       THEN /\ px_pc' = "done"
            /\ px_resp' = [status |-> 400]
            /\ px_origin' = NoOrigin
            /\ px_timer' = FALSE
       ELSE /\ px_pc' = "send"
            /\ px_resp' = NoPxResp
            /\ px_origin' = origin
            /\ px_timer' = looks_like_manifest(url)
    /\ UNCHANGED <<orchestrator, ingest, session_vars, xtream_vars, cleanup_vars,
                   fetch_vars, copy_vars, classifier_vars>>

\* the timeout around request.send() expires: 504
ProxyTimeout ==
    /\ px_pc = "send"
    /\ px_timer
    /\ px_pc' = "done"
    /\ px_timer' = FALSE
    /\ px_resp' = [status |-> 504]
    /\ UNCHANGED <<px_req, px_origin>>
    /\ UNCHANGED <<orchestrator, ingest, session_vars, xtream_vars, cleanup_vars,
                   fetch_vars, copy_vars, classifier_vars>>

\* request.send() returns an error: 504 if e.is_timeout(), else 502
ProxySendError ==
    /\ px_pc = "send"
    /\ px_origin.outcome \in {"connect_error", "os_timeout"}
    /\ px_pc' = "done"
    /\ px_timer' = FALSE
    /\ px_resp' = [status |-> IF px_origin.outcome = "os_timeout" THEN 504 ELSE 502]
    /\ UNCHANGED <<px_req, px_origin>>
    /\ UNCHANGED <<orchestrator, ingest, session_vars, xtream_vars, cleanup_vars,
                   fetch_vars, copy_vars, classifier_vars>>

\* request.send() returns the response head: the handler goes on to read
\* the body of a manifest or to stream anything else; neither is inside
\* timeout()
ProxyHeaders ==
    /\ px_pc = "send"
    /\ px_origin.outcome = "headers"
    /\ px_pc' = IF is_hls_manifest(content_type_of(px_origin, px_req.url), px_req.url)
                THEN "body" ELSE "stream"
    /\ px_timer' = FALSE
    /\ UNCHANGED <<px_req, px_origin, px_resp>>
    /\ UNCHANGED <<orchestrator, ingest, session_vars, xtream_vars, cleanup_vars,
                   fetch_vars, copy_vars, classifier_vars>>

\* upstream_response.bytes() returns: the manifest is rewritten and
\* answered with the status of the origin, or 502 when the read failed
ProxyReadManifest(ok) ==
    /\ px_pc = "body"
    /\ px_pc' = "done"
    /\ px_resp' =
        IF ok
        THEN [status |-> px_origin.status,
              content_type |-> content_type_of(px_origin, px_req.url),
              body |-> rewrite_manifest_urls(px_origin.body, px_req.url, BASE_URL,
                                             px_req.referer)]
        ELSE [status |-> 502]
    /\ UNCHANGED <<px_req, px_origin, px_timer>>
    /\ UNCHANGED <<orchestrator, ingest, session_vars, xtream_vars, cleanup_vars,
                   fetch_vars, copy_vars, classifier_vars>>

\* the stream of a segment ends (it need not: live TV streams for ever)
ProxyStreamEnd ==
    /\ px_pc = "stream"
    /\ px_pc' = "done"
    /\ px_resp' = [status |-> px_origin.status,
                   content_type |-> content_type_of(px_origin, px_req.url),
                   body |-> px_origin.body]
    /\ UNCHANGED <<px_req, px_origin, px_timer>>
    /\ UNCHANGED <<orchestrator, ingest, session_vars, xtream_vars, cleanup_vars,
                   fetch_vars, copy_vars, classifier_vars>>

\* the response has been sent and the handler has returned; the next
\* request can arrive
ProxyReturn ==
    /\ px_pc = "done"
    /\ px_pc' = "idle"
    /\ px_req' = NoPxReq
    /\ px_origin' = NoOrigin
    /\ px_resp' = NoPxResp
    /\ UNCHANGED px_timer
    /\ UNCHANGED <<orchestrator, ingest, session_vars, xtream_vars, cleanup_vars,
                   fetch_vars, copy_vars, classifier_vars>>

ProxyNext ==
    \/ \E url \in ProxyUrls, referer \in Referers, origin \in ProxyOrigins :
            ProxyRequest(url, referer, origin)
    \/ ProxyTimeout
    \/ ProxySendError
    \/ ProxyHeaders
    \/ \E ok \in BOOLEAN : ProxyReadManifest(ok)
    \/ ProxyStreamEnd
    \/ ProxyReturn

ProxySpec == ProxyInit /\ [][ProxyNext]_vars

\* ---------------------------------------------------------------------
\* The cleanup worker: start_cleanup_task, spawned once by main
\* ---------------------------------------------------------------------

\* the positions of the two steps of a run, in the first run, made at
\* startup, and in the runs of the loop
PlaylistPcs == {"s_playlists", "playlists"}

HistoryPcs == {"s_history", "history"}

\* faulty variant: an error in a step ends the worker
after_step_Abort(at_pc, ok) ==
    IF ~ok THEN "stopped"
    ELSE IF at_pc = "s_playlists" THEN "s_history"
    ELSE IF at_pc = "playlists" THEN "history"
    ELSE IF at_pc = "s_history" THEN "s_report"
    ELSE "warn"

\* run_cleanup: both arms of the match of a step fall through to what
\* follows it, the other step or the return of the result
after_step(at_pc, ok) ==
    IF at_pc = "s_playlists" THEN "s_history"
    ELSE IF at_pc = "playlists" THEN "history"
    ELSE IF at_pc = "s_history" THEN "s_report"
    ELSE "warn"

CleanupInit ==
    /\ OrchestratorIdle
    /\ ParserIdle
    /\ EdgeIdle

\* a playlist passes its expires_at
PlaylistExpires ==
    /\ cl_expired < MaxExpired
    /\ cl_expired' = cl_expired + 1
    /\ UNCHANGED <<cl_pc, cl_result, cl_cycles, cl_extra, cl_warned>>
    /\ UNCHANGED <<orchestrator, ingest, session_vars, xtream_vars, proxy_vars,
                   fetch_vars, copy_vars, classifier_vars>>

\* a device records one more watch history entry than are kept
HistoryGrows ==
    /\ cl_extra < MaxExtra
    /\ cl_extra' = cl_extra + 1
    /\ UNCHANGED <<cl_pc, cl_result, cl_cycles, cl_expired, cl_warned>>
    /\ UNCHANGED <<orchestrator, ingest, session_vars, xtream_vars, proxy_vars,
                   fetch_vars, copy_vars, classifier_vars>>

\* main spawns the task: "Run immediately on startup"
StartCleanupTask ==
    /\ cl_pc = "off"
    /\ cl_pc' = "s_playlists"
    /\ cl_result' = CleanupResultDefault
    /\ UNCHANGED <<cl_cycles, cl_expired, cl_extra, cl_warned>>
    /\ UNCHANGED <<orchestrator, ingest, session_vars, xtream_vars, proxy_vars,
                   fetch_vars, copy_vars, classifier_vars>>

\* run_cleanup, first step: cleanup_expired_playlists deletes the expired
\* playlists, or fails: the error is pushed to the result and logged
CleanupPlaylists(ok) ==
    /\ cl_pc \in PlaylistPcs
    /\ cl_pc' = after_step(cl_pc, ok)
    /\ IF ok
       THEN /\ cl_result' = [cl_result EXCEPT !.playlists_deleted = cl_expired]
            /\ cl_expired' = 0
            /\ UNCHANGED cl_warned
       ELSE /\ cl_result' = [cl_result EXCEPT
                                !.errors = Append(@, "Playlist cleanup failed")]
            /\ cl_warned' = Append(cl_warned, "Cleanup: playlist cleanup failed")
            /\ UNCHANGED cl_expired
    /\ UNCHANGED <<cl_cycles, cl_extra>>
    /\ UNCHANGED <<orchestrator, ingest, session_vars, xtream_vars, proxy_vars,
                   fetch_vars, copy_vars, classifier_vars>>

\* run_cleanup, second step: cleanup_watch_history calls the database
\* function and, when that fails, the manual query; when both fail the
\* error is pushed to the result and logged
CleanupHistory(function_ok, manual_ok) ==
    /\ cl_pc \in HistoryPcs
    /\ cl_pc' = after_step(cl_pc, function_ok \/ manual_ok)
    /\ IF function_ok \/ manual_ok
       THEN /\ cl_result' = [cl_result EXCEPT !.watch_history_deleted = cl_extra]
            /\ cl_extra' = 0
            /\ UNCHANGED cl_warned
       ELSE /\ cl_result' = [cl_result EXCEPT
                                !.errors = Append(@, "Watch history cleanup failed")]
            /\ cl_warned' = Append(cl_warned, "Cleanup: watch history cleanup failed")
            /\ UNCHANGED cl_extra
    /\ UNCHANGED <<cl_cycles, cl_expired>>
    /\ UNCHANGED <<orchestrator, ingest, session_vars, xtream_vars, proxy_vars,
                   fetch_vars, copy_vars, classifier_vars>>

\* the first run has returned; the interval is created
CleanupReport ==
    /\ cl_pc = "s_report"
    /\ cl_pc' = "tick"
    /\ cl_cycles' = IF cl_cycles < MaxCycles THEN cl_cycles + 1 ELSE cl_cycles
    /\ UNCHANGED <<cl_result, cl_expired, cl_extra, cl_warned>>
    /\ UNCHANGED <<orchestrator, ingest, session_vars, xtream_vars, proxy_vars,
                   fetch_vars, copy_vars, classifier_vars>>

\* interval.tick() completes (the first tick at once, the following ones
\* one interval apart) and a run begins
CleanupTick ==
    /\ cl_pc = "tick"
    /\ cl_pc' = "playlists"
    /\ cl_result' = CleanupResultDefault
    /\ cl_warned' = <<>>
    /\ UNCHANGED <<cl_cycles, cl_expired, cl_extra>>
    /\ UNCHANGED <<orchestrator, ingest, session_vars, xtream_vars, proxy_vars,
                   fetch_vars, copy_vars, classifier_vars>>

\* a run of the loop has returned: its errors are logged as warnings and
\* the loop goes back to the tick
CleanupWarn ==
    /\ cl_pc = "warn"
    /\ cl_pc' = "tick"
    /\ cl_warned' = cl_warned \o cl_result.errors
    /\ cl_cycles' = IF cl_cycles < MaxCycles THEN cl_cycles + 1 ELSE cl_cycles
    /\ UNCHANGED <<cl_result, cl_expired, cl_extra>>
    /\ UNCHANGED <<orchestrator, ingest, session_vars, xtream_vars, proxy_vars,
                   fetch_vars, copy_vars, classifier_vars>>

\* the steps of the task
CleanupWorker ==
    \/ StartCleanupTask
    \/ \E ok \in BOOLEAN : CleanupPlaylists(ok)
    \/ \E function_ok, manual_ok \in BOOLEAN : CleanupHistory(function_ok, manual_ok)
    \/ CleanupReport
    \/ CleanupTick
    \/ CleanupWarn

CleanupNext ==
    \/ PlaylistExpires
    \/ HistoryGrows
    \/ CleanupWorker

\* the runtime keeps scheduling the spawned task, the timer fires and
\* every call to the database returns
CleanupSpec == CleanupInit /\ [][CleanupNext]_vars /\ WF_vars(CleanupWorker)

\* ---------------------------------------------------------------------
\* The fetch of the feed: M3UParser::fetch_with_retry.  A step is one
\* request with its answer, or one wait.
\* ---------------------------------------------------------------------

\* the first wait, in ms
BackoffBaseMs == 500

\* the longest wait, in ms
BackoffCapMs == 10000

\* the width of the u64 that is shifted
ShiftBits == 64

\* what one request ends with: a success status, a success status with a
\* content-length above the limit, 429, another status, or an error of
\* send()
FetchOutcomes == {"success", "too_large", "too_many_requests", "other_status", "network"}

\* 1u64 << attempt overflows when attempt >= 64: a build with overflow
\* checks panics, a build without them shifts by attempt % 64
shift_overflows(attempt) == attempt >= ShiftBits

\* the base wait doubled shift times; the doubling is stopped at the cap,
\* above which the product, saturating at u64::MAX, stays
RECURSIVE doubled(_, _)
doubled(ms, shift) ==
    IF shift = 0 \/ ms >= BackoffCapMs THEN ms ELSE doubled(2 * ms, shift - 1)

\* faulty variant: every wait is the first wait
backoff_ms_Fixed(attempt) == BackoffBaseMs

\* (1u64 << attempt).saturating_mul(500).min(10_000), the shift being
\* taken modulo 64
backoff_ms(attempt) ==
    LET product == doubled(BackoffBaseMs, attempt % ShiftBits)
    IN IF product < BackoffCapMs THEN product ELSE BackoffCapMs

FetchInit ==
    /\ OrchestratorIdle
    /\ ParserIdle
    /\ EdgeIdle

\* fetch_with_retry is called: "for attempt in 0..=self.max_retries"
FetchStart(max_retries) ==
    /\ ft_pc = "idle"
    /\ ft_pc' = "send"
    /\ ft_max' = max_retries
    /\ ft_attempt' = 0
    /\ UNCHANGED <<ft_result, ft_sends, ft_waits>>
    /\ UNCHANGED <<orchestrator, ingest, session_vars, xtream_vars, proxy_vars,
                   cleanup_vars, copy_vars, classifier_vars>>

\* the function returns
FetchEnd(result) ==
    /\ ft_pc' = "done"
    /\ ft_result' = result

\* one pass of the loop up to its return or its sleep:
\* self.client.get(url).send() and the match on its result
FetchSend(outcome) ==
    /\ ft_pc = "send"
    /\ ft_sends' = ft_sends + 1
    /\ IF outcome = "success" THEN FetchEnd("response")
       ELSE IF outcome = "too_large" THEN FetchEnd("error")
       ELSE IF outcome \in {"too_many_requests", "network"} /\ ft_attempt < ft_max
            THEN ft_pc' = "backoff" /\ UNCHANGED ft_result
       ELSE FetchEnd("error")
    /\ UNCHANGED <<ft_max, ft_attempt, ft_waits>>
    /\ UNCHANGED <<orchestrator, ingest, session_vars, xtream_vars, proxy_vars,
                   cleanup_vars, copy_vars, classifier_vars>>

\* "let backoff_ms = ...; sleep(backoff_ms); continue": the task panics on
\* the shift, or it waits and goes to the next attempt
FetchRetry ==
    /\ ft_pc = "backoff"
    /\ \/ /\ shift_overflows(ft_attempt)
          /\ FetchEnd("panic")
          /\ UNCHANGED <<ft_attempt, ft_waits>>
       \/ /\ ft_waits' = Append(ft_waits, backoff_ms(ft_attempt))
          /\ ft_attempt' = ft_attempt + 1
          /\ ft_pc' = "send"
          /\ UNCHANGED ft_result
    /\ UNCHANGED <<ft_max, ft_sends>>
    /\ UNCHANGED <<orchestrator, ingest, session_vars, xtream_vars, proxy_vars,
                   cleanup_vars, copy_vars, classifier_vars>>

FetchNext ==
    \/ \E max_retries \in 0..MaxRetriesConfig : FetchStart(max_retries)
    \/ \E outcome \in FetchOutcomes : FetchSend(outcome)
    \/ FetchRetry

\* a request ends, by its answer or by the timeout of the client, and a
\* sleep ends: the task is polled until it returns
FetchSpec == FetchInit /\ [][FetchNext]_vars /\ WF_vars(FetchNext)

\* ---------------------------------------------------------------------
\* The text of a string field in a line of the bulk copy: format_copy_line
\* for items, series::insert_many for series.  A string is the sequence
\* of its characters; a behaviour follows one field.
\* ---------------------------------------------------------------------

Tab == "TAB"
Newline == "LF"
CarriageReturn == "CR"
Space == " "

\* the characters of the fields: the three that are escaped, the space,
\* the backslash, a letter and a letter of two bytes
FieldChars == {Tab, Newline, CarriageReturn, Space, "\\", "a", "e-acute"}

Fields == UNION {[1..n -> FieldChars] : n \in 0..MaxFieldLen}

\* str::replace(from, to) with a one-character pattern; to is a string
RECURSIVE replace(_, _, _)
replace(s, from, to) ==
    IF s = <<>> THEN <<>>
    ELSE (IF Head(s) = from THEN to ELSE <<Head(s)>>) \o replace(Tail(s), from, to)

\* the closure escape of format_copy_line and insert_many:
\* s.replace('\t', " ").replace('\n', " ").replace('\r', "")
escape(s) ==
    replace(replace(replace(s, Tab, <<Space>>), Newline, <<Space>>), CarriageReturn, <<>>)

\* the length of the UTF-8 encoding of a character
len_utf8(c) == IF c = "e-acute" THEN 2 ELSE 1

\* str::len, in bytes
RECURSIVE len(_)
len(s) == IF s = <<>> THEN 0 ELSE len_utf8(Head(s)) + len(Tail(s))

\* the closure truncate of insert_many: the length is compared in bytes,
\* the cut is made in characters
truncate(s, max) ==
    IF len(s) <= max THEN s
    ELSE SubSeq(s, 1, IF Len(s) < max THEN Len(s) ELSE max)

CopyInit ==
    /\ OrchestratorIdle
    /\ ParserIdle
    /\ EdgeIdle

\* format_copy_line: a string field of an item
CopyItemField(s) ==
    /\ cp_writer = "none"
    /\ cp_writer' = "items"
    /\ cp_field' = s
    /\ cp_text' = escape(s)
    /\ UNCHANGED <<orchestrator, ingest, session_vars, xtream_vars, proxy_vars,
                   cleanup_vars, fetch_vars, classifier_vars>>

\* insert_many: a string field of a series
CopySeriesField(s) ==
    /\ cp_writer = "none"
    /\ cp_writer' = "series"
    /\ cp_field' = s
    /\ cp_text' = escape(truncate(s, MaxColumn))
    /\ UNCHANGED <<orchestrator, ingest, session_vars, xtream_vars, proxy_vars,
                   cleanup_vars, fetch_vars, classifier_vars>>

CopyNext ==
    \/ cp_writer = "none" /\ \E s \in Fields : CopyItemField(s)
    \/ cp_writer = "none" /\ \E s \in Fields : CopySeriesField(s)

CopySpec == CopyInit /\ [][CopyNext]_vars

\* ---------------------------------------------------------------------
\* The classifier: ContentClassifier::classify.  A name or a group is the
\* sequence of its words, which single spaces separate; a regular
\* expression is modelled by the words and the word sequences of the
\* vocabulary it matches.
\* ---------------------------------------------------------------------

\* the character U+2022, a word of its own in the names "24H <bullet> ..."
Bullet == "BULLET"

\* the word "Series" with an acute accent on its first e
SeriesAcute == "S[e-acute]ries"

\* the words of the names and the words of the groups
NameWords == {"24H", "24/7", Bullet, "Harry", "S01E01", "(1999)", "Dublado", "19:30"}
GroupWords == {"24H", "24/7", SeriesAcute, "SERIES", "Filmes", "Coletanea", "xxx", "TV"}

\* scenario E3 and the test test_classify_live_24h
E3Name == <<"24H", Bullet, "Harry", "Potter">>
E3Group == <<SeriesAcute, "24h">>
TestName == <<"24H", Bullet, "Breaking", "Bad">>
TestGroup == <<"SERIES", "24H">>

Texts(words) == UNION {[1..n -> words] : n \in 0..MaxWords}

ClassifyInputs ==
    (Texts(NameWords) \X Texts(GroupWords))
        \cup {<<E3Name, E3Group>>, <<TestName, TestGroup>>}

\* str::to_lowercase, and the flag (?i) of the expressions, on a word
lowercase_word(w) ==
    CASE w = "24H" -> "24h"
      [] w = SeriesAcute -> "s[e-acute]ries"
      [] w = "SERIES" -> "series"
      [] w = "Filmes" -> "filmes"
      [] w = "Coletanea" -> "coletanea"
      [] w = "TV" -> "tv"
      [] w = "Harry" -> "harry"
      [] w = "Potter" -> "potter"
      [] w = "Breaking" -> "breaking"
      [] w = "Bad" -> "bad"
      [] w = "S01E01" -> "s01e01"
      [] w = "Dublado" -> "dublado"
      [] OTHER -> w

to_lowercase(s) == [j \in 1..Len(s) |-> lowercase_word(s[j])]

\* an expression that one word matches: is_match finds it anywhere
has_word(s, words) == \E j \in 1..Len(s) : to_lowercase(s)[j] \in words

\* an expression "a\s*b" of two words
has_pair(s, first, second) ==
    \E j \in 1..(Len(s) - 1) :
        to_lowercase(s)[j] \in first /\ to_lowercase(s)[j + 1] \in second

\* (?i)xxx|onlyfans|adulto|\+18
ADULT_CONTENT(s) == has_word(s, {"xxx", "onlyfans", "adulto", "+18"})

\* (?i)/ts(\?|$)
TS_STREAM(s) == s # <<>> /\ to_lowercase(s)[Len(s)] = "/ts"

\* (?i)\b24h(rs)?\b
PATTERN_24H(s) == has_word(s, {"24h", "24hrs"})

\* 24/7
PATTERN_24_7(s) == has_word(s, {"24/7"})

\* (?i)coletanea
COLETANEA(s) == has_word(s, {"coletanea"})

\* (?i)CINE.*24H
CINE_24H(s) ==
    \E j, k \in 1..Len(s) :
        j < k /\ to_lowercase(s)[j] = "cine" /\ to_lowercase(s)[k] \in {"24h", "24hrs"}

\* (?i)^24H\s*<bullet>
CANAL_24H_PREFIX(s) == Len(s) >= 2 /\ to_lowercase(s)[1] = "24h" /\ s[2] = Bullet

\* (?i)^CINE\s+\w+\s+\d{2}
CINE_TEMATICO(s) ==
    Len(s) >= 3 /\ to_lowercase(s)[1] = "cine" /\ s[3] \in {"01", "05"}

\* ^\d{1,2}:\d{2}\s+
EVENTO_HORARIO(s) == Len(s) >= 2 /\ s[1] = "19:30"

\* (?i)s[e-acute or e]ries|series|novelas|animes|doramas
SERIES_CHECK(s) ==
    has_word(s, {"series", "s[e-acute]ries", "novelas", "animes", "doramas"})

\* (?i)filmes|movies|cinema|lancamentos|vod
MOVIES_CHECK(s) == has_word(s, {"filmes", "movies", "cinema", "lancamentos", "vod"})

\* (?i)#\s*\|\s*(series|novelas) and (?i)#\s*\|\s*filmes?: "#" is in no
\* word of the vocabulary
HASH_SERIES_NOVELAS(s) == has_pair(s, {"#"}, {"|"})
HASH_FILMES(s) == has_pair(s, {"#"}, {"|"})

\* GROUP_LIVE_PATTERNS, on the lowercased group
GROUP_LIVE_PATTERNS(s) ==
    \/ has_word(s, {"canais", "channels", "tv", "live", "news", "24hrs", "24/7",
                    "futebol", "esporte", "sports", "ppv"})
    \/ has_pair(s, {"series"}, {"24h", "24hrs"})

\* GROUP_SERIES_PATTERNS
GROUP_SERIES_PATTERNS(s) ==
    has_word(s, {"series", "s[e-acute]ries", "shows", "novelas", "animes", "temporadas"})

\* GROUP_MOVIE_PATTERNS
GROUP_MOVIE_PATTERNS(s) ==
    has_word(s, {"filmes", "movies", "cinema", "vod", "terror", "drama", "dublado",
                 "legendado", "coletanea"})

\* ContentClassifier::classify_by_group
ContentClassifier_classify_by_group(group) ==
    IF group = <<>> THEN "unknown"
    ELSE LET has_series == SERIES_CHECK(group)
             has_movies == MOVIES_CHECK(group)
             has_24h == PATTERN_24H(group) \/ PATTERN_24_7(group)
         IN IF has_series /\ has_24h THEN "live"
            ELSE IF has_series \/ HASH_SERIES_NOVELAS(group) THEN "series"
            ELSE IF has_movies \/ HASH_FILMES(group) THEN "movie"
            ELSE IF GROUP_LIVE_PATTERNS(group) THEN "live"
            ELSE IF GROUP_SERIES_PATTERNS(group) THEN "series"
            ELSE IF GROUP_MOVIE_PATTERNS(group) THEN "movie"
            ELSE "unknown"

\* (?i)\bS\s*<bullet> and (?i)\bF\s*<bullet>
S_PREFIX(s) == has_pair(s, {"s"}, {Bullet})
F_PREFIX(s) == has_pair(s, {"f"}, {Bullet})

\* TITLE_SERIES_PATTERNS and (?i)S\d{1,2}E\d{1,3}
TITLE_SERIES_PATTERNS(s) == has_word(s, {"s01e01"})
SERIES_PATTERN_CHECK(s) == has_word(s, {"s01e01"})

\* (?i)filme|movies?|cinema|lancamento|f\s*<bullet>
MOVIE_GROUP_CHECK(s) ==
    has_word(s, {"filmes", "movies", "cinema"}) \/ has_pair(s, {"f"}, {Bullet})

\* the number of TITLE_MOVIE_PATTERNS that match: "(year)", "[year]", a
\* quality, a language, a genre
movie_score(s) ==
    (IF has_word(s, {"(1999)"}) THEN 1 ELSE 0)
    + (IF has_word(s, {"[1999]"}) THEN 1 ELSE 0)
    + (IF has_word(s, {"4k", "1080p", "720p", "bluray"}) THEN 1 ELSE 0)
    + (IF has_word(s, {"dublado", "dual", "leg", "legendado"}) THEN 1 ELSE 0)
    + (IF has_word(s, {"terror", "drama", "suspense"}) THEN 1 ELSE 0)

\* (?i)\b(24/7|24h|live|ao vivo)\b
TITLE_LIVE_PATTERNS(s) == has_word(s, {"24/7", "24h", "live"})

\* ContentClassifier::classify_by_title
ContentClassifier_classify_by_title(name, group) ==
    IF name = <<>> THEN "unknown"
    ELSE IF group # <<>> /\ S_PREFIX(group) THEN "series"
    ELSE IF group # <<>> /\ F_PREFIX(group) THEN "movie"
    ELSE IF TITLE_SERIES_PATTERNS(name) THEN "series"
    ELSE IF (group # <<>> /\ MOVIE_GROUP_CHECK(group)) /\ ~SERIES_PATTERN_CHECK(name)
         THEN "movie"
    ELSE IF movie_score(name) >= 2 THEN "movie"
    ELSE IF TITLE_LIVE_PATTERNS(name) THEN "live"
    ELSE "unknown"

\* the rules of classify that follow the 24h check
after_24h(name, group) ==
    IF group # <<>> /\ COLETANEA(group) THEN "movie"
    ELSE IF group # <<>> /\ CINE_24H(group) THEN "live"
    ELSE IF name # <<>> /\ CANAL_24H_PREFIX(name) THEN "live"
    ELSE IF name # <<>> /\ CINE_TEMATICO(name) THEN "live"
    ELSE IF name # <<>> /\ EVENTO_HORARIO(name) THEN "live"
    ELSE LET group_kind == ContentClassifier_classify_by_group(group)
         IN IF group_kind # "unknown" THEN group_kind
            ELSE ContentClassifier_classify_by_title(name, group)

\* faulty variant: the 24h check is made on the name after the group has
\* been classified
ContentClassifier_classify_GroupFirst(name, group) ==
    IF group # <<>> /\ ADULT_CONTENT(group) THEN "live"
    ELSE IF TS_STREAM(group) \/ TS_STREAM(name) THEN "live"
    ELSE LET group_kind == ContentClassifier_classify_by_group(group)
         IN IF group_kind # "unknown" THEN group_kind
            ELSE IF PATTERN_24H(name \o group) \/ PATTERN_24_7(name \o group) THEN "live"
            ELSE after_24h(name, group)

\* ContentClassifier::classify: the filters of adult groups and of /ts
\* streams, the 24h check on "name group" lowercased, then the other rules
ContentClassifier_classify(name, group) ==
    IF group # <<>> /\ ADULT_CONTENT(group) THEN "live"
    ELSE IF TS_STREAM(group) \/ TS_STREAM(name) THEN "live"
    ELSE LET combined == to_lowercase(name \o group)
         IN IF PATTERN_24H(combined) \/ PATTERN_24_7(combined) THEN "live"
            ELSE after_24h(name, group)

ClassifierInit ==
    /\ OrchestratorIdle
    /\ ParserIdle
    /\ EdgeIdle

\* a call of classify
Classify(name, group) ==
    /\ ~cf_called
    /\ cf_called' = TRUE
    /\ cf_name' = name
    /\ cf_group' = group
    /\ cf_kind' = ContentClassifier_classify(name, group)
    /\ UNCHANGED <<orchestrator, ingest, session_vars, xtream_vars, proxy_vars,
                   cleanup_vars, fetch_vars, copy_vars>>

\* a behaviour follows one call
ClassifierNext ==
    /\ ~cf_called
    /\ \E input \in ClassifyInputs : Classify(input[1], input[2])

ClassifierSpec == ClassifierInit /\ [][ClassifierNext]_vars






\* ---------------------------------------------------------------------
\* Properties
\* ---------------------------------------------------------------------

\* the task holds processing:<hash>: it acquired the key and has not yet
\* reached the DEL that releases it
CriticalPcs == {"p_cache_check", "p_downloading", "p_fetch", "p_save_playlist",
                "p_parse", "p_finish", "p_building_series", "p_save_groups",
                "p_save_series", "p_update_stats", "p_complete", "p_get_metadata",
                "j_release_ok", "j_release_err"}

\* the task has created its playlist row and is still inside the parser
WritingPcs == {"p_parse", "p_finish", "p_building_series", "p_save_groups",
               "p_save_series", "p_update_stats", "p_complete", "p_get_metadata"}

NonTerminal == {"parsing", "building_groups", "building_series"}

Submitted(i) == req[i] # NoReq /\ IsValidUrl(req[i].url)

InFlight(h) == {i \in Requests : pc[i] \in CriticalPcs /\ Hash(i) = h}

\* C1: for every hash, as long as processing:<hash> has not expired
\* while held, at most one task is between acquiring the lock and
\* releasing it.
C1_MutualExclusion ==
    \A h \in Hashes : ~lockExpired[h] => Cardinality(InFlight(h)) <= 1

\* C1 witness: two tasks for one hash were spawned; one holds the lock and
\* the other was denied it.
C1_Witness ==
    \E i, j \in Requests :
        /\ i # j /\ pc[i] \in CriticalPcs /\ pc[j] = "j_lock_denied"
        /\ Hash(i) = Hash(j) /\ ~lockExpired[Hash(i)]

\* C2 (as claimed): while a task holds the lock of its hash (and the lock
\* has not expired), progress:<hash> has a non-terminal status and
\* processing:<hash> exists.
C2_InFlightProgress ==
    \A i \in Requests :
        (pc[i] \in CriticalPcs /\ ~lockExpired[Hash(i)]) =>
            /\ progress[Hash(i)].status \in NonTerminal
            /\ processing[Hash(i)] # NoLock

\* the failures the claim lists: fetch, line read, item write, commit of
\* the bulk writer, saving groups or series, updating stats
ListedErrors == {"Failed to fetch playlist", "Timed out while reading playlist line",
                 "write_item failed", "Failed to finish writing items",
                 "Failed to save groups", "Failed to save series",
                 "Failed to update stats"}

\* C3 (as claimed): when the parser has returned one of the listed errors
\* to the task (which still holds the unexpired lock), no playlist row
\* exists for the hash.
C3_FailureLeavesNoRow ==
    \A i \in Requests :
        (pc[i] = "j_release_err" /\ error[i] \in ListedErrors
            /\ ~lockExpired[Hash(i)]) => playlists[Hash(i)] = NoRow

\* C4: a task that acquired processing:<hash> and has ended does not
\* hold the key any more, whether it succeeded or failed.
C4_LockReleased ==
    \A i \in Requests :
        (pc[i] = "done" /\ acquired[i]) => processing[Hash(i)] # i

\* C4 witness: one task that held the lock ended in success and another
\* ended in failure.
C4_Witness ==
    \E i, j \in Requests :
        /\ pc[i] = "done" /\ acquired[i] /\ job_result[i] = "ok"
        /\ pc[j] = "done" /\ acquired[j] /\ job_result[j] = "failed"

\* C5: the step that ends a task in success leaves progress:<hash>
\* complete with the item, group and series counts of the metadata the
\* parser returned; for a task that parsed the feed itself under an
\* unexpired lock these are the counts of its own parse.
C5_SuccessPublishesComplete ==
    [][\A i \in Requests :
        (pc[i] = "j_mark_complete" /\ pc'[i] = "done") =>
            /\ job_result'[i] = "ok"
            /\ progress'[Hash(i)].status = "complete"
            /\ progress'[Hash(i)].error = NoError
            /\ progress'[Hash(i)].items_parsed = metadata[i].total_items
            /\ progress'[Hash(i)].groups_count = metadata[i].group_count
            /\ progress'[Hash(i)].series_count = metadata[i].series_count
            /\ (wrote[i] /\ ~lockExpired[Hash(i)]) => metadata[i] = stats[i]]_vars

\* C5 witness: a task that parsed a non-empty feed has ended in success
\* and the progress record shows complete with its counts.
C5_Witness ==
    \E i \in Requests :
        /\ job_result[i] = "ok" /\ wrote[i]
        /\ progress[Hash(i)].status = "complete"
        /\ progress[Hash(i)].items_parsed = MaxItems
        /\ progress[Hash(i)].groups_count = 1
        /\ progress[Hash(i)].series_count = MaxItems - 1

\* C6: the step that ends a task in failure leaves progress:<hash> failed
\* with the task's error message, and the response of the admission, which
\* was {status: parsing}, is never changed once it has been returned.
C6_FailureOnlyInProgress ==
    [][\A i \in Requests :
        /\ (pc[i] \in {"j_mark_failed", "j_lock_denied"} /\ pc'[i] = "done") =>
                /\ job_result'[i] = "failed"
                /\ error[i] # NoError
                /\ progress'[Hash(i)].status = "failed"
                /\ progress'[Hash(i)].error = error[i]
                /\ resp[i].status = "parsing"
        /\ resp[i] # NoResp => resp'[i] = resp[i]]_vars

\* C6 witness: a task failed while saving groups; its admission had
\* answered parsing and the progress record carries the message.
C6_Witness ==
    \E i \in Requests :
        /\ job_result[i] = "failed" /\ resp[i].status = "parsing"
        /\ progress[Hash(i)].status = "failed"
        /\ progress[Hash(i)].error = "Failed to save groups"

AlreadyParsing ==
    [status |-> "parsing", message |-> "Already parsing this playlist"]

\* C7: an admission that reads a progress record with a non-terminal
\* status answers {status: parsing} in that step and leaves the progress
\* record as it is; a request answered that way has no task: it never
\* acquires the lock and never ends as a job.
C7_DedupNonTerminal ==
    /\ [][\A i \in Requests :
            (pc[i] = "a_check_progress" /\ pc'[i] # "a_check_progress"
                /\ progress[Hash(i)].status \in NonTerminal) =>
                    /\ pc'[i] = "done"
                    /\ resp'[i] = AlreadyParsing
                    /\ progress' = progress]_vars
    /\ [](\A i \in Requests :
            resp[i] = AlreadyParsing =>
                pc[i] = "done" /\ ~acquired[i] /\ ~wrote[i] /\ job_result[i] = "none")

\* C7 witness: a request was answered "already parsing" while the task of
\* another request for the same hash is past the parse loop, where the
\* status it published is building_groups.
C7_Witness ==
    \E i, j \in Requests :
        /\ i # j /\ resp[i] = AlreadyParsing /\ Hash(i) = Hash(j)
        /\ pc[j] = "p_save_groups"
        /\ progress[Hash(j)].status = "building_groups"

\* C8 (as claimed): of two tasks spawned by overlapping admissions for the
\* same hash, at most one has written a playlist row (the lock not having
\* expired).
C8_AtMostOneWriter ==
    \A i, j \in Requests :
        (i # j /\ {i, j} \in concurrent /\ Hash(i) = Hash(j)
            /\ ~lockExpired[Hash(i)]) => ~(wrote[i] /\ wrote[j])

\* C8 (amended): as long as the lock has not expired, at most one task is
\* writing playlist data for a hash at a time, and while it does the only
\* playlist row of that hash is the one it created.
C8_OneWriterAtATime ==
    \A i \in Requests :
        (pc[i] \in WritingPcs /\ ~lockExpired[Hash(i)]) =>
            /\ playlists[Hash(i)] = NoRow \/ playlists[Hash(i)].id = playlist_id[i]
            /\ \A j \in Requests :
                (j # i /\ Submitted(j) /\ Hash(j) = Hash(i)) => pc[j] \notin WritingPcs

\* C8 witness: two tasks of overlapping admissions for one hash have both
\* written: the first failed and the second is writing now.
C8_Witness ==
    \E i, j \in Requests :
        /\ i # j /\ {i, j} \in concurrent /\ Hash(i) = Hash(j)
        /\ ~lockExpired[Hash(i)]
        /\ wrote[i] /\ job_result[i] = "failed"
        /\ wrote[j] /\ pc[j] \in WritingPcs
        /\ playlists[Hash(j)] # NoRow /\ playlists[Hash(j)].id = playlist_id[j]

\* C9 (as claimed): no two playlist rows have the same non-null device_id.
C9_DeviceUnique ==
    \A g, h \in Hashes :
        (g # h /\ playlists[g] # NoRow /\ playlists[h] # NoRow
            /\ playlists[g].device_id # NoDevice) =>
                playlists[g].device_id # playlists[h].device_id

ParserPcs == {"p_downloading", "p_fetch", "p_save_playlist", "p_parse", "p_finish",
              "p_building_series", "p_save_groups", "p_save_series",
              "p_update_stats", "p_complete", "p_get_metadata"}

\* C11 (as claimed): the task of a request whose URL the source detector
\* confirms as an Xtream source never runs the M3U parser on it.
C11_XtreamSkipsParser ==
    \A i \in Requests :
        (Submitted(i) /\ detect_xtream(req[i].url) # NoCreds) => pc[i] \notin ParserPcs

\* the request is in its task, which begins with the acquisition of the
\* lock
JobPcs == ParserPcs \cup {"p_cache_check", "j_acquire", "j_lock_denied", "j_release_ok",
                          "j_attach", "j_mark_complete", "j_release_err", "j_mark_failed"}

\* C26 (as claimed): the step in which a task releases processing:<hash>
\* leaves the key as it is when the key does not hold the task's own id.
C26_ReleaseOnlyOwnLock ==
    [][\A i \in Requests :
        (/\ pc[i] \in {"j_release_ok", "j_release_err"}
         /\ pc'[i] # pc[i]
         /\ processing[Hash(i)] # i) =>
                processing'[Hash(i)] = processing[Hash(i)]]_vars

\* C27 (as claimed): a step of a task that changes progress:<hash> while
\* processing:<hash> is held is a step of the task that holds it.
C27_ProgressWrittenByHolder ==
    [][\A i \in Requests :
        (/\ pc[i] \in JobPcs
         /\ pc'[i] # pc[i]
         /\ progress'[Hash(i)] # progress[Hash(i)]
         /\ processing[Hash(i)] # NoLock) =>
                processing[Hash(i)] = i]_vars

\* the row of the hash of request i was created by the task of another
\* request, which is still writing into it
BeingWritten(i) ==
    /\ playlists[Hash(i)] # NoRow
    /\ \E j \in Requests :
        /\ j # i /\ Submitted(j) /\ Hash(j) = Hash(i)
        /\ pc[j] \in WritingPcs
        /\ playlists[Hash(i)].id = playlist_id[j]

\* C28 (as claimed): a step of an admission leaves in place the playlist
\* row that the task of another request for the same hash is writing.
C28_AdmissionKeepsRowInUse ==
    [][\A i \in Requests :
        (/\ pc[i] \in {"a_delete_device", "a_check_progress", "a_find_cache",
                       "a_init_progress"}
         /\ pc'[i] # pc[i]
         /\ BeingWritten(i)) =>
                playlists'[Hash(i)] = playlists[Hash(i)]]_vars

\* C29 (as claimed): a request whose hash was in the store with items
\* when it arrived never gets a task, and when it has been answered the
\* answer is complete, from the cache.
C29_CachedHashIsReused ==
    \A i \in Requests :
        hadItems[i] =>
            /\ pc[i] \in {"a_delete_device", "a_check_progress", "a_find_cache", "done"}
            /\ pc[i] = "done" => resp[i].status = "complete" /\ job_result[i] = "none"

\* the errors that only "Return metadata" returns, after the parser has
\* published complete
AfterCompleteErrors == {"Failed to retrieve saved metadata", "error returned from database"}

\* the parser of the task of request i has published complete
PublishedComplete(i) ==
    \/ pc[i] \in {"p_get_metadata", "j_attach", "j_mark_complete"}
    \/ pc[i] = "j_release_ok" /\ wrote[i]
    \/ pc[i] \in {"j_release_err", "j_mark_failed"} /\ error[i] \in AfterCompleteErrors

\* C30 (as claimed): a step of a task whose parser has published complete
\* leaves progress:<hash> as it is or writes the status complete.
C30_TerminalProgressStable ==
    [][\A i \in Requests :
        (/\ PublishedComplete(i)
         /\ pc'[i] # pc[i]
         /\ progress'[Hash(i)] # progress[Hash(i)]) =>
                progress'[Hash(i)].status = "complete"]_vars

\* C31 (as claimed): whenever progress:<hash> reads complete for a request
\* whose ingestion published it, the playlist of the hash has expires_at =
\* now + 1 day and, when the request named a device, that device.
C31_CompleteImpliesAttached ==
    \A i \in Requests :
        (/\ Submitted(i)
         /\ PublishedComplete(i) \/ job_result[i] = "ok"
         /\ progress[Hash(i)].status = "complete"
         /\ playlists[Hash(i)] # NoRow) =>
                /\ playlists[Hash(i)].expires_at = NowPlus1Day
                /\ Device(i) # NoDevice => playlists[Hash(i)].device_id = Device(i)

\* C35 (as claimed): a playlist row that is in the store after the task
\* that ingested its hash has ended, while no other task works on the
\* hash, has a non-null expires_at, so that cleanup_expired_playlists
\* collects it.
C35_EndedJobRowExpires ==
    \A i \in Requests :
        (/\ pc[i] = "done"
         /\ job_result[i] # "none"
         /\ \A j \in Requests : Hash(j) = Hash(i) => pc[j] \notin JobPcs
         /\ playlists[Hash(i)] # NoRow) =>
                playlists[Hash(i)].expires_at # "null"




\* ---------------------------------------------------------------------
\* Properties of one ingestion
\* ---------------------------------------------------------------------

\* update_stats has stored the counters of the parse
StatsSaved ==
    at = "complete" \/ (at \in {"task_ok", "done"} /\ parse_result.result = "ok")

\* the number of elements of a sequence that satisfy a test
CountOf(s, Test(_)) == Cardinality({j \in 1..Len(s) : Test(s[j])})

DistinctUrls(rows) ==
    \A j, k \in 1..Len(rows) : j # k => rows[j].url # rows[k].url

\* C13: no two item rows of the playlist, committed or still in the
\* writer, have the same URL; for the feed of scenario E1 the stored
\* counters are total_items = 2, unknown_count = 2, group_count = 1 and
\* the others 0, with one duplicate skipped and two item rows.
C13_UniqueUrls ==
    /\ DistinctUrls(store.items)
    /\ DistinctUrls(writer.copied \o writer.batch)
    /\ (body = FeedE1 /\ StatsSaved) =>
            /\ store.playlist.stats =
                    [total_items |-> 2, live_count |-> 0, movie_count |-> 0,
                     series_count |-> 0, unknown_count |-> 2, group_count |-> 1]
            /\ loc.duplicates_skipped = 1
            /\ Len(store.items) = 2

\* C13 witness: the feed of scenario E1 has been ingested with success.
C13_Witness ==
    /\ body = FeedE1 /\ at = "done" /\ parse_result.result = "ok"
    /\ loc.duplicates_skipped = 1 /\ Len(store.items) = 2

C15_CanNavigate ==
    status_resp # NoStatus =>
        (status_resp.can_navigate <=>
            \/ status_resp.status = "complete"
            \/ /\ "items_parsed" \in DOMAIN status_resp
               /\ status_resp.items_parsed >= NavigateAfter)

\* C15 witness: a response for a task that is still parsing allows
\* navigation because enough items are parsed.
C15_Witness ==
    /\ status_resp.status = "parsing"
    /\ status_resp.items_parsed >= NavigateAfter
    /\ status_resp.can_navigate

\* C16: no item row of the ingestion is in the table unless finish() has
\* committed; after the commit the table holds every item handed to the
\* writer.  A writer that was dropped leaves none of its rows.
C16_ItemsVisibleOnCommit ==
    /\ writer.state # "committed" => store.items = <<>>
    /\ writer.state = "committed" =>
            /\ store.items = writer.copied
            /\ Len(store.items) = writer.items_written

\* C16 witness: the writer had copied a batch inside its transaction when
\* the parse failed; the task has ended and no item row is stored.
C16_Witness ==
    /\ at = "done" /\ parse_result.result = "err"
    /\ writer.state = "rolled_back" /\ writer.copied # <<>>
    /\ store.items = <<>>

\* C32 (as claimed): whenever the status endpoint has reported
\* can_navigate for the hash with status parsing and the task is still in
\* its parse loop, a listing request for the hash returns item rows.
C32_NavigableItemsListed ==
    (/\ at = "loop"
     /\ status_resp.status = "parsing"
     /\ status_resp.can_navigate) =>
            LET listing == get_items(store, max_items_page, 0)
            IN listing.status = 200 /\ listing.items # <<>>

\* the page of a listing that holds the rows in the given order
PageOf(rows, limit, offset) ==
    SubSeq(rows, offset + 1,
           IF offset + limit < Len(rows) THEN offset + limit ELSE Len(rows))

\* C36: the rows the writer was handed, in the order of their arrival,
\* have strictly increasing sort_order values, the sort_order of a row
\* being the index the parser gave the retained item; once the rows are
\* committed every page of a listing returns them in that order.
C36_SortOrderIsArrivalOrder ==
    LET rows == writer.copied \o writer.batch
    IN /\ \A j, k \in 1..Len(rows) : j < k => rows[j].sort_order < rows[k].sort_order
       /\ \A j \in 1..Len(rows) : rows[j].sort_order = rows[j].id[2]
       /\ writer.state = "committed" =>
            \A limit \in 1..max_items_page, offset \in 0..Len(rows) :
                LET listing == get_items(store, limit, offset)
                IN /\ listing.status = 200
                   /\ listing.items = PageOf(rows, limit, offset)
                   /\ listing.total = Len(rows)

\* C36 witness: the feed of scenario E1, whose second record is a
\* duplicate, has been ingested; the two retained items are committed with
\* the sort_order values 0 and 1, and the second page of one row is the
\* second retained item.
C36_Witness ==
    /\ body = FeedE1 /\ at = "done" /\ parse_result.result = "ok"
    /\ writer.state = "committed"
    /\ loc.duplicates_skipped = 1
    /\ Len(store.items) = 2
    /\ store.items[2].sort_order = 1
    /\ get_items(store, 1, 1).items = <<store.items[2]>>

\* the step hands the writer an item that completes a run of
\* ProgressEvery retained items
RunCompleted ==
    /\ at = "loop"
    /\ loc'.item_index = loc.item_index + 1
    /\ loc'.item_index % ProgressEvery = 0

\* with the step a run is complete: the batch is flushed, every item so
\* far is copied, and the snapshot published has the current items_parsed
FlushedAndPublished ==
    RunCompleted =>
        /\ writer'.batch = <<>>
        /\ Len(writer'.copied) = loc'.item_index
        /\ prog' = loc'.progress
        /\ prog'.items_parsed = loc'.item_index

\* the step publishes a snapshot
Publishes == prog' # prog /\ prog' # NoProgress

\* C38 (as claimed): each time ProgressEvery more retained items have
\* been handed to the writer the batch is flushed and a snapshot with the
\* current items_parsed is published; every items_parsed a job publishes
\* is a multiple of ProgressEvery and none is below the one before.
C38_PublishedAsClaimed ==
    [][/\ FlushedAndPublished
       /\ Publishes =>
            /\ prog'.items_parsed % ProgressEvery = 0
            /\ prog # NoProgress => prog'.items_parsed >= prog.items_parsed]_vars

\* C38 (amended): each time ProgressEvery more retained items have been
\* handed to the writer the batch is flushed and a snapshot with the
\* current items_parsed is published; every items_parsed published with
\* the status parsing is a multiple of ProgressEvery, and no items_parsed
\* the parser publishes is below the one before.  (The snapshots after the
\* last line carry the number of retained items, the failed record of the
\* task carries 0.)
C38_PublishedWhileParsing ==
    [][/\ FlushedAndPublished
       /\ (Publishes /\ prog'.status = "parsing") =>
            prog'.items_parsed % ProgressEvery = 0
       /\ (Publishes /\ prog # NoProgress /\ prog'.status # "failed") =>
            prog'.items_parsed >= prog.items_parsed]_vars

\* C38 witness: the parser is in its loop after a complete run: the batch
\* is empty, the items of the run are copied and the snapshot in Redis
\* says so.
C38_Witness ==
    /\ at = "loop"
    /\ loc.item_index = ProgressEvery
    /\ writer.batch = <<>> /\ Len(writer.copied) = ProgressEvery
    /\ prog.status = "parsing" /\ prog.items_parsed = ProgressEvery




\* the lines that are neither empty nor comments
RECURSIVE Significant(_)
Significant(lines) ==
    IF lines = <<>> THEN <<>>
    ELSE IF Head(lines).t \in {"blank", "comment"} THEN Significant(Tail(lines))
         ELSE <<Head(lines)>> \o Significant(Tail(lines))

HeaderFirst(lines) ==
    Significant(lines) # <<>> /\ Significant(lines)[1] = HeaderLine

\* the parser is past the header check
PastHeaderCheck ==
    at \in {"finish", "save_groups", "save_series", "update_stats", "complete"}

\* C17 (as claimed): the parser gets past its header check only for a feed
\* whose first non-empty, non-comment line is #EXTM3U.
C17_HeaderMustBeFirst == PastHeaderCheck => HeaderFirst(body)

\* a feed with the header and otherwise only empty lines and comments
HeaderOnly(lines) ==
    /\ \E j \in 1..Len(lines) : lines[j] = HeaderLine
    /\ \A j \in 1..Len(lines) : lines[j].t \in {"header", "blank", "comment"}

\* the errors that do not depend on the content of the feed
InfraErrors ==
    {"Failed to fetch playlist", "Failed to create playlist record",
     "Failed to create streaming writer", "Timed out while reading playlist line",
     "Failed to finish writing items", "Failed to save groups",
     "Failed to save series", "Failed to update stats",
     "error returned from database"}

\* C18: for a feed with only the header, the parser fails only when the
\* fetch, the read of a line or the database fails; the step that ends the
\* task in success leaves progress complete with all counts 0, and the
\* playlist exists with all counters 0 and no item rows.
C18_HeaderOnlySucceeds ==
    /\ [](HeaderOnly(body) /\ parse_result.result = "err" =>
            parse_result.error \in InfraErrors)
    /\ [][(HeaderOnly(body) /\ at = "task_ok" /\ at' = "done") =>
            /\ parse_result.result = "ok"
            /\ prog'.status = "complete"
            /\ prog'.items_parsed = 0
            /\ prog'.groups_count = 0
            /\ prog'.series_count = 0
            /\ store'.playlist # NoRow
            /\ store'.playlist.stats = StatsZero
            /\ store'.items = <<>> /\ store'.groups = <<>> /\ store'.series = <<>>]_vars

\* C18 witness: the feed <<#EXTM3U>> has been ingested: progress is
\* complete and the stored playlist is empty.
C18_Witness ==
    /\ body = <<HeaderLine>> /\ at = "done" /\ parse_result.result = "ok"
    /\ prog.status = "complete" /\ prog.items_parsed = 0
    /\ store.playlist # NoRow /\ store.playlist.stats = StatsZero

\* series_vec has been built from the accumulators
SeriesBuilt ==
    at \in {"save_groups", "save_series", "update_stats", "complete"}
        \/ (at \in {"task_ok", "done"} /\ writer.state = "committed")

\* the item ids of the episodes of a series record, season by season
RECURSIVE EpisodesOf(_)
EpisodesOf(seasons) ==
    IF seasons = <<>> THEN <<>> ELSE Head(seasons).episodes \o EpisodesOf(Tail(seasons))

\* C19: once the series records are built, every retained episode is in
\* exactly one series record, the record of its series key, and a record
\* has exactly the episodes of its key, however many runs they arrived in;
\* for the feed of scenario E2 there is one record with 5 episodes in
\* 1 season, in the order E01..E05.
C19_OneRecordPerSeriesKey ==
    SeriesBuilt =>
        LET sv == loc.series_vec
            EpisodeItems == {j \in 1..Len(store.items) : store.items[j].series_id # "null"}
        IN /\ \A j \in EpisodeItems :
                LET x == store.items[j]
                    recs == {k \in 1..Len(sv) : sv[k].id = x.series_id}
                IN /\ Cardinality(recs) = 1
                   /\ \A k \in recs :
                        \E e \in 1..Len(EpisodesOf(sv[k].seasons_data)) :
                            EpisodesOf(sv[k].seasons_data)[e].item_id = x.id
           /\ \A k \in 1..Len(sv) :
                /\ sv[k].total_episodes =
                        Cardinality({j \in EpisodeItems : store.items[j].series_id = sv[k].id})
                /\ sv[k].total_episodes = Len(EpisodesOf(sv[k].seasons_data))
           /\ body = FeedE2 =>
                /\ Len(sv) = 1
                /\ sv[1].name = "Breaking Bad"
                /\ sv[1].total_episodes = 5 /\ sv[1].total_seasons = 1
                /\ sv[1].first_season = 1 /\ sv[1].last_season = 1
                /\ [e \in 1..5 |-> EpisodesOf(sv[1].seasons_data)[e].episode]
                        = <<1, 2, 3, 4, 5>>

\* C19 witness: the feed of scenario E2 has been ingested and its one
\* series record with five episodes is stored.
C19_Witness ==
    /\ body = FeedE2 /\ at = "done" /\ parse_result.result = "ok"
    /\ Len(store.series) = 1 /\ store.series[1].total_episodes = 5

\* C20: in every series record that is built or stored, the seasons are
\* in non-decreasing order of season number and the episodes of every
\* season in non-decreasing order of episode number.
C20_SeasonsAndEpisodesSorted ==
    \A sv \in {loc.series_vec, store.series} :
        \A k \in 1..Len(sv) :
            LET sd == sv[k].seasons_data
            IN /\ \A a, b \in 1..Len(sd) :
                    a < b => sd[a].season_number <= sd[b].season_number
               /\ \A a \in 1..Len(sd) :
                    \A e, f \in 1..Len(sd[a].episodes) :
                        e < f => sd[a].episodes[e].episode <= sd[a].episodes[f].episode

\* C20 witness: the episodes S02E01, S01E02, S01E01 of one series arrived
\* in that order and its record is stored.
C20_Witness ==
    /\ body = <<HeaderLine>> \o Flatten(<<
            Rec(Title("Breaking Bad", 2, 1), "Series", "http://e/3"),
            Rec(Title("Breaking Bad", 1, 2), "Series", "http://e/2"),
            Rec(Title("Breaking Bad", 1, 1), "Series", "http://e/1")>>)
    /\ at = "done" /\ parse_result.result = "ok"
    /\ Len(store.series) = 1 /\ store.series[1].total_seasons = 2

\* ---------------------------------------------------------------------
\* Properties of the sessions
\* ---------------------------------------------------------------------

\* C21 (as claimed): once a poll has answered received = true for a
\* session id, every poll of that id that starts later finds no session:
\* it is answered 404.
C21_PollRemovesSession ==
    [][\A id \in SessionIds : id \in received =>
            /\ \A p \in Pollers :
                    tv[p].pc = "idle" => ~(tv'[p].pc = "del" /\ tv'[p].id = id)
            /\ (tv' = tv /\ poll_resp' # poll_resp /\ poll_resp'.id = id) =>
                    poll_resp'.status = 404]_vars

\* C33 (as claimed): each URL stored in a session is returned by at most
\* one poll, also when polls of the session run concurrently: a URL was
\* never returned for a session more often than it was stored in it.
C33_UrlDeliveredOnce ==
    \A k \in DOMAIN stored : delivered[k] <= stored[k]

\* C34 (as claimed): a send that answers success has stored the URL in
\* the session, and a send for a session that no longer exists never
\* answers success: when the send handler returns 200 the session of its
\* id exists and holds the URL of the request.
C34_SuccessMeansStored ==
    [][(/\ mobile.pc # "idle"
        /\ mobile'.pc = "idle"
        /\ send_resp'.status = 200) =>
                get_session(sessions', mobile.id) = [url |-> mobile.url]]_vars



\* ---------------------------------------------------------------------
\* Properties of the Xtream list endpoints
\* ---------------------------------------------------------------------

\* C22 (as claimed): when the origin has answered a list request with an
\* empty body, [] or null, the caller is answered 200 with an empty list.
C22_EmptyResponseIsEmptyList ==
    (/\ xt_pc = "done"
     /\ xt_origin.outcome = "text"
     /\ xt_origin.text \in {"", "[]", "null"}) =>
            /\ xt_resp.status = 200
            /\ xt_resp.total = 0
            /\ xt_resp.items = <<>>


\* ---------------------------------------------------------------------
\* Properties of the HLS proxy
\* ---------------------------------------------------------------------

\* the proxy is fetching what it serves as a manifest: the request is
\* sent or the body is being read
ManifestFetch ==
    /\ px_pc \in {"send", "body"}
    /\ px_origin.outcome = "headers"
    /\ is_hls_manifest(content_type_of(px_origin, px_req.url), px_req.url)

\* C23 (as claimed): as long as the proxy is fetching a manifest the
\* fetch is inside the manifest timeout, whose expiry is answered 504;
\* while it streams anything else no timeout is running.
C23_ManifestFetchBounded ==
    /\ [](ManifestFetch => px_timer)
    /\ [](px_pc = "stream" => ~px_timer)
    /\ [][(px_timer /\ ~px_timer' /\ px_pc' = "done" /\ px_origin.outcome = "headers")
            => px_resp'.status = 504]_vars


\* the proxy URL the claim puts in the place of a URI of the manifest
ProxyUrlOf(uri) ==
    build_proxy_url(resolve_url(uri, px_req.url), BASE_URL, px_req.referer)

\* the line as the claim describes it: a data line and the value of a URI
\* attribute are replaced by their proxy URL, any other line is kept
ExpectedLine(line) ==
    IF line = <<>> THEN <<>>
    ELSE IF line[1] # "#" THEN ProxyUrlOf(line)
    ELSE IF find(line, "URI=\"") = 0 THEN line
    ELSE LET open == find(line, "URI=\"")
             rest == SubSeq(line, open + 1, Len(line))
             close == find(rest, "\"")
         IN SubSeq(line, 1, open) \o ProxyUrlOf(SubSeq(rest, 1, close - 1))
                \o SubSeq(rest, close, Len(rest))

\* the rewritten manifest of scenario E4
ExpectedE4 ==
    <<TagExtM3u,
      <<"#", "EXT-X-KEY:METHOD=AES-128,", "URI=\"",
        "http:", "/", "/", "p", "/api/proxy/hls?url=",
        "http%3A", "%2F", "%2F", "o", "%2F", "a", "%2F", "key.bin", "\"">>,
      <<"http:", "/", "/", "p", "/api/proxy/hls?url=",
        "http%3A", "%2F", "%2F", "o", "%2F", "a", "%2F", "seg1.ts">>,
      <<"http:", "/", "/", "p", "/api/proxy/hls?url=",
        "http%3A", "%2F", "%2F", "cdn", "%2F", "seg2.ts">>>>

\* the proxy has answered with a rewritten manifest
ManifestServed ==
    px_pc = "done" /\ "body" \in DOMAIN px_resp
        /\ is_hls_manifest(px_resp.content_type, px_req.url)

\* C24 (as claimed): in a manifest the proxy has rewritten, every data
\* line and every URI attribute of a tag line is the proxy URL of its
\* absolute URL, blank lines and tags without URI are as the origin sent
\* them, and every URL in the output is a URL of the proxy; the manifest
\* of scenario E4 is rewritten to the lines the scenario lists.
C24_ManifestRewritten ==
    ManifestServed =>
        /\ Len(px_resp.body) = Len(px_origin.body)
        /\ \A j \in 1..Len(px_origin.body) :
                px_resp.body[j] = ExpectedLine(px_origin.body[j])
        /\ \A j \in 1..Len(px_resp.body) :
                \A k \in 1..Len(px_resp.body[j]) :
                    px_resp.body[j][k] \in {"http:", "https:"} =>
                        SubSeq(px_resp.body[j], k, k + 3) = BASE_URL
        /\ (px_origin.body = ManifestE4 /\ px_req.url = ManifestUrlE4
                /\ px_req.referer = NoReferer) => px_resp.body = ExpectedE4


\* ---------------------------------------------------------------------
\* Properties of the cleanup worker
\* ---------------------------------------------------------------------

\* C25: whatever the outcome of a step of a cleanup run, the other step
\* of the run or the end of the run follows it, and a failure of the step
\* is logged; the worker begins a run of its loop again and again.
C25_CleanupNeverStops ==
    /\ [][/\ (cl_pc \in PlaylistPcs /\ cl_pc' # cl_pc) => cl_pc' \in HistoryPcs
          /\ (cl_pc \in HistoryPcs /\ cl_pc' # cl_pc) => cl_pc' \in {"s_report", "warn"}
          /\ Len(cl_result'.errors) > Len(cl_result.errors) =>
                Len(cl_warned') > Len(cl_warned)]_vars
    /\ [](cl_pc \in PlaylistPcs => <>(cl_pc \in HistoryPcs))
    /\ [](cl_pc \in HistoryPcs => <>(cl_pc = "tick"))
    /\ []<>(cl_pc = "playlists")

\* C25 witness: in a run of the loop after the first the deletion of the
\* expired playlists failed, the watch history was trimmed all the same
\* and the worker is waiting for the next tick.
C25_Witness ==
    /\ cl_pc = "tick" /\ cl_cycles >= 2
    /\ cl_result.errors = <<"Playlist cleanup failed">>
    /\ cl_result.watch_history_deleted > 0
    /\ cl_expired > 0


\* ---------------------------------------------------------------------
\* Properties of the fetch of the feed
\* ---------------------------------------------------------------------

\* the waits so far start at the base wait and each further one, up to
\* the n-th, is twice the one before, or the cap when that is less
WaitsDouble(n) ==
    /\ ft_waits # <<>> => ft_waits[1] = BackoffBaseMs
    /\ \A k \in 1..(Len(ft_waits) - 1) :
            k < n => ft_waits[k + 1] = IF 2 * ft_waits[k] < BackoffCapMs
                                       THEN 2 * ft_waits[k] ELSE BackoffCapMs

\* C37 (as claimed): a fetch sends at most max_retries requests and ends
\* with a response or an error; its waits start at 500 ms, double each
\* time and never exceed 10 s.
C37_FetchAsClaimed ==
    /\ [](/\ ft_sends <= ft_max
          /\ WaitsDouble(Len(ft_waits))
          /\ \A k \in 1..Len(ft_waits) : ft_waits[k] <= BackoffCapMs
          /\ ft_pc = "done" => ft_result \in {"response", "error"})
    /\ (ft_pc # "idle" ~> ft_pc = "done")

\* C37 (amended): a fetch sends at most max_retries + 1 requests, the
\* first and max_retries retries, and it ends: with a response or an
\* error, or with a panic of the shift when a 65th retry is due; every
\* wait is between 500 ms and 10 s, and the first 64 waits start at
\* 500 ms and double up to the cap of 10 s.
C37_FetchBounded ==
    /\ [](/\ ft_sends <= ft_max + 1
          /\ WaitsDouble(ShiftBits)
          /\ \A k \in 1..Len(ft_waits) :
                ft_waits[k] >= BackoffBaseMs /\ ft_waits[k] <= BackoffCapMs
          /\ ft_pc = "done" =>
                \/ ft_result \in {"response", "error"}
                \/ ft_result = "panic" /\ Len(ft_waits) >= ShiftBits)
    /\ (ft_pc # "idle" ~> ft_pc = "done")

\* C37 witness: with max_retries = 6 every request has failed; the fetch
\* has ended with an error after seven requests and six waits, the last
\* of which is the cap.
C37_Witness ==
    /\ ft_pc = "done" /\ ft_result = "error"
    /\ ft_max = 6 /\ ft_sends = 7
    /\ ft_waits = <<500, 1000, 2000, 4000, 8000, 10000>>


\* ---------------------------------------------------------------------
\* Properties of the bulk copy
\* ---------------------------------------------------------------------

\* the value of the field that is escaped
Escaped == IF cp_writer = "series" THEN truncate(cp_field, MaxColumn) ELSE cp_field

\* C39 (as claimed): in the text of a string field every tab, newline
\* and carriage return of the value is replaced by exactly one space and
\* every other character is left as it is.
C39_ControlsBecomeSpaces ==
    cp_writer # "none" =>
        cp_text = [j \in 1..Len(Escaped) |->
                        IF Escaped[j] \in {Tab, Newline, CarriageReturn} THEN Space
                        ELSE Escaped[j]]

\* ---------------------------------------------------------------------
\* Properties of the classifier
\* ---------------------------------------------------------------------

\* the name or the group holds a 24h marker
Has24hMarker(s) == \E j \in 1..Len(s) : s[j] \in {"24H", "24h", "24/7"}

\* the group holds a series term
HasSeriesTerm(s) == \E j \in 1..Len(s) : s[j] \in {"SERIES", SeriesAcute}

\* C40: the 24h rule is applied before the rules of the group and of the
\* title: an item with a 24h marker in its name or in its group is
\* classified live, also when the group holds a series term; the item of
\* scenario E3 and the item of test_classify_live_24h are live.
C40_24hBeatsSeries ==
    cf_called =>
        /\ (Has24hMarker(cf_name) \/ Has24hMarker(cf_group)) => cf_kind = "live"
        /\ (cf_name = E3Name /\ cf_group = E3Group) => cf_kind = "live"
        /\ (cf_name = TestName /\ cf_group = TestGroup) => cf_kind = "live"

\* C40 witness: the item of scenario E3, whose group holds a series term
\* and a 24h marker, has been classified live.
C40_Witness ==
    /\ cf_called
    /\ cf_name = E3Name /\ cf_group = E3Group
    /\ HasSeriesTerm(cf_group) /\ Has24hMarker(cf_name)
    /\ cf_kind = "live"

====
